---- MODULE Spec2Model ----
(***************************************************************************)
(* Model of the blog post lifecycle of aithena-backend:                    *)
(*   src/src/modules/blog/blog.entity.ts   (BlogPost, its lifecycle hooks) *)
(*   src/src/modules/blog/blog.service.ts  (BlogPostService)               *)
(*                                                                         *)
(* The store is the blog_posts table.  Every awaited repository call of a  *)
(* service method is one atomic step; the synchronous code between two     *)
(* awaits belongs to the step of the await that precedes it.  Several      *)
(* requests (Procs) run their steps interleaved.                           *)
(*                                                                         *)
(* Strings are sequences of one-character strings.  A JavaScript object    *)
(* with optional properties is a record whose DOMAIN holds exactly the     *)
(* properties that are set.  A null published_at is Null; the clock `now`  *)
(* only takes values greater than Null.                                    *)
(***************************************************************************)
EXTENDS Integers, Sequences, FiniteSets, TLC

\* ------------------------------------------------------------------ bounds
MaxPosts == 2
MaxTime == 2
MaxViews == 2

Procs == {1, 2}

\* ids the callers pass; ids of rows are handed out in order by the store
Ids == 1..MaxPosts

Null == 0

\* ------------------------------------------------------------ strings
lowerLetters == {"a", "b"}
upperLetters == {"A", "B"}
digits == {"0", "1", "2", "3", "4", "5", "6", "7", "8", "9"}

\* String.prototype.toLowerCase, one character
toLowerChar(c) ==
    CASE c = "A" -> "a"
      [] c = "B" -> "b"
      [] OTHER -> c

toLowerCase(s) == [i \in 1..Len(s) |-> toLowerChar(s[i])]

\* \s of a regular expression
spaceChars == {" "}

\* \w of a regular expression: letters, digits and the underscore
wordChars == lowerLetters \cup upperLetters \cup digits \cup {"_"}

\* the longest suffix of s that does not start with a character of cs
RECURSIVE dropFront(_, _)
dropFront(s, cs) ==
    IF s # <<>> /\ Head(s) \in cs THEN dropFront(Tail(s), cs) ELSE s

\* the longest prefix of s that does not end with a character of cs
RECURSIVE dropBack(_, _)
dropBack(s, cs) ==
    IF s # <<>> /\ s[Len(s)] \in cs
    THEN dropBack(SubSeq(s, 1, Len(s) - 1), cs)
    ELSE s

\* String.prototype.trim
trim(s) == dropBack(dropFront(s, spaceChars), spaceChars)

\* .replace(/[^\w\s-]/g, '')
keepSlugChar(c) == c \in wordChars \cup spaceChars \cup {"-"}

\* a replace that removes nothing
specialKept(s) == s

removeSpecial(s) == SelectSeq(s, keepSlugChar)

\* .replace(/[\s_-]+/g, '-')
separatorChars == spaceChars \cup {"_", "-"}

RECURSIVE collapseSeparators(_)
collapseSeparators(s) ==
    IF s = <<>> THEN <<>>
    ELSE IF Head(s) \in separatorChars
         THEN <<"-">> \o collapseSeparators(dropFront(Tail(s), separatorChars))
         ELSE <<Head(s)>> \o collapseSeparators(Tail(s))

\* .replace(/^-+|-+$/g, '')
stripHyphens(s) == dropBack(dropFront(s, {"-"}), {"-"})

\* BlogPost.generateSlug for a title that is text; the empty title throws
SlugError == <<"!", "e", "r", "r", "o", "r">>

generateSlug(title) ==
    IF title = <<>> THEN SlugError
    ELSE stripHyphens(collapseSeparators(removeSpecial(trim(toLowerCase(title)))))

\* a JavaScript value passed as a title: a string with its characters, or a
\* value that is no string (undefined, null, a number)
Text(chars) == [text |-> TRUE, chars |-> chars]
NotText == [text |-> FALSE, chars |-> << >>]

\* BlogPost.generateSlug for any value: !title || typeof title !== "string"
\* throws, a non-empty string is converted
generateSlugOf(title) ==
    IF ~title.text \/ title.chars = << >>
    THEN SlugError
    ELSE generateSlug(title.chars)

\* `${n}` for the counters the probe loop reaches
digitChar(d) ==
    CASE d = 0 -> "0" [] d = 1 -> "1" [] d = 2 -> "2" [] d = 3 -> "3"
      [] d = 4 -> "4" [] d = 5 -> "5" [] d = 6 -> "6" [] d = 7 -> "7"
      [] d = 8 -> "8" [] d = 9 -> "9"

RECURSIVE numberToString(_)
numberToString(n) ==
    IF n < 10 THEN <<digitChar(n)>>
    ELSE numberToString(n \div 10) \o <<digitChar(n % 10)>>

\* `${baseSlug}-${counter}`
suffixed(baseSlug, counter) == baseSlug \o <<"-">> \o numberToString(counter)

\* --------------------------------------------------------- categories
\* A categories value as JavaScript sees it: an array with its items, or a
\* value that is no array (null and undefined are falsy, a string is truthy).
Arr(items) == [array |-> TRUE, truthy |-> TRUE, items |-> items]
JsNull == [array |-> FALSE, truthy |-> FALSE, items |-> << >>]
JsText == [array |-> FALSE, truthy |-> TRUE, items |-> << >>]

NEWSROOM == "newsroom"

\* Object.values(BlogCategory)
BlogCategory == <<"newsroom", "thought-pieces", "achievements", "awards-recognition">>

\* an includes test that every value passes
anyCategory(c) == TRUE

\* validCategories.includes(category)
isValidCategory(c) == \E i \in 1..Len(BlogCategory) : BlogCategory[i] = c

\* [...new Set(xs)]: the first occurrence of every member, in order
RECURSIVE uniqueOf(_)
uniqueOf(xs) ==
    IF xs = <<>> THEN <<>>
    ELSE LET front == uniqueOf(SubSeq(xs, 1, Len(xs) - 1))
             last == xs[Len(xs)]
         IN  IF \E i \in 1..Len(front) : front[i] = last
             THEN front
             ELSE Append(front, last)

\* BlogPostService.validateCategories
validateCategories(categories) ==
    IF ~categories.truthy \/ ~categories.array \/ Len(categories.items) = 0
    THEN Arr(<<NEWSROOM>>)
    ELSE LET uniqueCategories == SelectSeq(uniqueOf(categories.items), isValidCategory)
         IN  IF Len(uniqueCategories) > 0
             THEN Arr(uniqueCategories)
             ELSE Arr(<<NEWSROOM>>)

\* ------------------------------------------------- entity hooks
\* updatePublishedAt without its is_published tests: stamps whatever has no date
updatePublishedAtStamp(e, t) ==
    IF e.published_at = Null THEN [e EXCEPT !.published_at = t] ELSE e

\* updatePublishedAt dating every save of a published post
updatePublishedAtRestamp(e, t) ==
    [e EXCEPT !.published_at = IF e.is_published THEN t ELSE Null]

\* BlogPost.updatePublishedAt (@BeforeInsert, @BeforeUpdate), at time t
updatePublishedAt(e, t) ==
    IF e.is_published /\ e.published_at = Null
    THEN [e EXCEPT !.published_at = t]
    ELSE IF ~e.is_published
         THEN [e EXCEPT !.published_at = Null]
         ELSE e

\* validateCategories as a listener that leaves the entity as it is
entityCategoriesUnchecked(e) == e

\* BlogPost.validateCategories (@BeforeInsert, @BeforeUpdate)
entityValidateCategories(e) ==
    IF ~e.categories.truthy \/ ~e.categories.array \/ Len(e.categories.items) = 0
    THEN [e EXCEPT !.categories = Arr(<<NEWSROOM>>)]
    ELSE LET uniqueCategories ==
                 SelectSeq(uniqueOf(e.categories.items), isValidCategory)
         IN  IF Len(uniqueCategories) = 0
             THEN [e EXCEPT !.categories = Arr(<<NEWSROOM>>)]
             ELSE [e EXCEPT !.categories = Arr(uniqueCategories)]

\* BlogPost.generateSlugFromTitle (@BeforeInsert, @BeforeUpdate)
generateSlugFromTitle(e) ==
    IF e.title # <<>> /\ e.slug = <<>>
    THEN [e EXCEPT !.slug = generateSlug(e.title)]
    ELSE e

\* the listeners of one save, in the order the entity declares them
beforeSave(e, t) ==
    generateSlugFromTitle(entityValidateCategories(updatePublishedAt(e, t)))

\* ------------------------------------------------------------ state
VARIABLES
    posts,      \* the blog_posts table: id -> row
    nextId,     \* the next id the store generates
    now,        \* the clock read by new Date()
    op,         \* per request slot: where the running call stands, its locals
    applied     \* history: per id, how many increment statements hit its row

vars == <<posts, nextId, now, op, applied>>

Idle == [pc |-> "idle", method |-> "none"]

\* a call that returned (status "ok") or threw
Done(method, status, msg) ==
    [pc |-> "done", method |-> method, status |-> status, msg |-> msg]

Free(p) == op[p].pc \in {"idle", "done"}

\* dto.f is set and truthy
truthy(dto, f) == f \in DOMAIN dto /\ dto[f]

\* Object.assign(target, source)
objectAssign(target, source) ==
    [f \in DOMAIN target \cup DOMAIN source |->
        IF f \in DOMAIN source THEN source[f] ELSE target[f]]

\* ------------------------------------------------------------ store
\* the unique constraint on blog_posts.slug, for a row written under `id`
slugConflict(slug, id) ==
    \E j \in DOMAIN posts : j # id /\ posts[j].slug = slug

\* a slug column without its unique constraint
uniqueUnchecked(slug, id) == TRUE

\* @Column({ unique: true }) of slug: the write of `slug` under `id` is accepted
uniqueHolds(slug, id) == ~slugConflict(slug, id)

\* no row is excluded: excludeId is undefined on the create path
NoId == 0

\* isSlugTaken without its excludeId clause
isSlugTakenAnywhere(slug, excludeId) ==
    \E j \in DOMAIN posts : posts[j].slug = slug

\* BlogPostService.isSlugTaken: the query found a row
isSlugTaken(slug, excludeId) ==
    \E j \in DOMAIN posts :
        posts[j].slug = slug /\ (excludeId = NoId \/ j # excludeId)

\* ------------------------------------------------------------ authors
\* [0-9a-f] under the i flag
hexChars ==
    digits \cup {"a", "b", "c", "d", "e", "f", "A", "B", "C", "D", "E", "F"}

\* uuidRegex.test(author_id):
\* /^[0-9a-f]{8}-[0-9a-f]{4}-[1-5][0-9a-f]{3}-[89ab][0-9a-f]{3}-[0-9a-f]{12}$/i
uuidRegexTest(s) ==
    /\ Len(s) = 36
    /\ \A i \in 1..Len(s) :
          IF i \in {9, 14, 19, 24} THEN s[i] = "-"
          ELSE IF i = 15 THEN s[i] \in {"1", "2", "3", "4", "5"}
          ELSE IF i = 20 THEN s[i] \in {"8", "9", "a", "b", "A", "B"}
          ELSE s[i] \in hexChars

NoError == ""

\* BlogPostService.validateAuthor: the message of the BadRequestException it
\* throws, or NoError
validateAuthor(author_id) ==
    IF author_id = << >> THEN "Author ID is required"
    ELSE IF ~uuidRegexTest(author_id) THEN "Invalid author ID format"
    ELSE NoError

\* the text of 36 characters with c for every hexadecimal digit but the
\* version digit and the variant digit
Repeat(c, n) == [i \in 1..n |-> c]

Uuid(c, version, variant) ==
    Repeat(c, 8) \o <<"-">> \o Repeat(c, 4) \o <<"-", version>> \o Repeat(c, 3)
        \o <<"-", variant>> \o Repeat(c, 3) \o <<"-">> \o Repeat(c, 12)

\* the administrator every create of the model is called for
Author == Uuid("a", "4", "8")

\* author_id = :author_id on a uuid column: the two texts name the same uuid
sameUuid(a, b) == toLowerCase(a) = toLowerCase(b)

TypeOK ==
    /\ nextId \in 1..(MaxPosts + 1)
    /\ now \in 1..MaxTime
    /\ DOMAIN posts \subseteq Ids
    /\ \A p \in Procs : op[p].pc \in
          {"idle", "done", "probe", "c_save", "c_read", "u_find", "u_save",
           "u_read", "r_find", "r_remove", "i_find", "i_inc", "i_read",
           "v_call", "l_count", "l_many", "s_counts", "s_recent", "s_category",
           "fp_find", "ff_find", "fr_find", "fc_find", "o_find", "g_call", "fa_find", "sp_find"}

Init ==
    /\ posts = << >>
    /\ nextId = 1
    /\ now = 1
    /\ op = [p \in Procs |-> Idle]
    /\ applied = [id \in Ids |-> 0]

\* ------------------------------------------------------------ create
\* the posts created so far, with those whose create is still running
created ==
    (nextId - 1) + Cardinality({q \in Procs : op[q].method = "create"
                                              /\ op[q].pc \in {"probe", "c_save"}})

\* BlogPostService.create up to the first probe: the base slug of the title
CreateBegin(p, dto) ==
    /\ Free(p)
    /\ created < MaxPosts
    /\ LET baseSlug == generateSlug(dto.title)
       IN  op' = [op EXCEPT ![p] =
                IF baseSlug = SlugError
                THEN Done("create", "BadRequest", "Failed to generate unique slug")
                ELSE [pc |-> "probe", method |-> "create", id |-> NoId, req |-> dto,
                      baseSlug |-> baseSlug, slug |-> baseSlug, counter |-> 1]]
    /\ UNCHANGED <<posts, nextId, now, applied>>

\* this.blogPostRepository.create({...}) of BlogPostService.create, at time t
newBlogPost(dto, slug, t) ==
    [title |-> trim(dto.title),
     slug |-> slug,
     is_published |-> truthy(dto, "is_published"),
     is_featured |-> truthy(dto, "is_featured"),
     view_count |-> 0,
     categories |-> validateCategories(
                        IF "categories" \in DOMAIN dto /\ dto.categories.truthy
                        THEN dto.categories
                        ELSE Arr(<<NEWSROOM>>)),
     author_id |-> Author,
     published_at |-> IF truthy(dto, "is_published") THEN t ELSE Null]

\* ------------------------------------------------------------ update
\* preparedUpdate whose unpublish branch forgets is_featured = false
preparedUpdateKeepsFeatured(dto, post, t) ==
    LET withCategories ==
            IF "categories" \in DOMAIN dto /\ dto.categories.truthy
            THEN objectAssign(dto, [categories |-> validateCategories(dto.categories)])
            ELSE dto
    IN  IF "is_published" \in DOMAIN dto
        THEN IF dto.is_published /\ ~post.is_published
             THEN objectAssign(withCategories, [published_at |-> t])
             ELSE IF ~dto.is_published /\ post.is_published
                  THEN objectAssign(withCategories, [published_at |-> Null])
                  ELSE withCategories
        ELSE withCategories

\* update's code between the slug and the feature check: the request as it
\* is assigned to the post (categories validated, published_at and
\* is_featured derived)
preparedUpdate(dto, post, t) ==
    LET withCategories ==
            IF "categories" \in DOMAIN dto /\ dto.categories.truthy
            THEN objectAssign(dto, [categories |-> validateCategories(dto.categories)])
            ELSE dto
    IN  IF "is_published" \in DOMAIN dto
        THEN IF dto.is_published /\ ~post.is_published
             THEN objectAssign(withCategories, [published_at |-> t])
             ELSE IF ~dto.is_published /\ post.is_published
                  THEN objectAssign(withCategories,
                                    [published_at |-> Null, is_featured |-> FALSE])
                  ELSE withCategories
        ELSE withCategories

\* the guard with only its first test: an explicit is_published = false
cannotFeatureExplicit(dto, post) ==
    /\ truthy(dto, "is_featured")
    /\ "is_published" \in DOMAIN dto /\ dto.is_published = FALSE

\* the guard testing the stored flag alone, blind to a publishing request
cannotFeatureStored(dto, post) ==
    /\ truthy(dto, "is_featured")
    /\ \/ ("is_published" \in DOMAIN dto /\ dto.is_published = FALSE)
       \/ ~post.is_published

\* the guard of "Cannot feature an unpublished post", on the prepared request
cannotFeature(dto, post) ==
    /\ truthy(dto, "is_featured")
    /\ \/ ("is_published" \in DOMAIN dto /\ dto.is_published = FALSE)
       \/ (~truthy(dto, "is_published") /\ ~post.is_published)

\* where update stands once the slug is settled: it threw, or it is about to
\* save the post it read with the prepared request assigned to it
afterSlug(o, dto, post, t) ==
    LET prepared == preparedUpdate(dto, post, t)
    IN  IF cannotFeature(prepared, post)
        THEN Done("update", "BadRequest", "Cannot feature an unpublished post")
                 @@ [req |-> o.req]
        ELSE [pc |-> "u_save", method |-> "update", id |-> o.id, req |-> o.req,
              post |-> post, dto |-> prepared]

\* the test with its first half only: any title in the request counts
titleGiven(dto, post) == "title" \in DOMAIN dto /\ dto.title # <<>>

\* updateBlogPostDTO.title && updateBlogPostDTO.title !== post.title
titleChanged(dto, post) ==
    "title" \in DOMAIN dto /\ dto.title # <<>> /\ dto.title # post.title

\* a caller invokes BlogPostService.update(id, dto)
UpdateBegin(p, id, dto) ==
    /\ Free(p)
    /\ op' = [op EXCEPT ![p] =
                [pc |-> "u_find", method |-> "update", id |-> id, req |-> dto]]
    /\ UNCHANGED <<posts, nextId, now, applied>>

\* BlogPostService.update: findOne, then the code up to the next await
UpdateFind(p) ==
    /\ op[p].pc = "u_find"
    /\ LET o == op[p]
       IN  op' = [op EXCEPT ![p] =
              IF o.id \notin DOMAIN posts
              THEN Done("update", "NotFound", "Blog post not found")
              ELSE IF titleChanged(o.req, posts[o.id])
                   THEN IF generateSlug(o.req.title) = SlugError
                        THEN Done("update", "BadRequest",
                                  "Failed to generate unique slug")
                        ELSE [pc |-> "probe", method |-> "update", id |-> o.id,
                              req |-> o.req, post |-> posts[o.id],
                              baseSlug |-> generateSlug(o.req.title),
                              slug |-> generateSlug(o.req.title), counter |-> 1]
                   ELSE afterSlug(o, o.req, posts[o.id], now)]
    /\ UNCHANGED <<posts, nextId, now, applied>>

\* ------------------------------------------------- generateUniqueSlug
\* one turn of the while loop of generateUniqueSlug: one isSlugTaken query,
\* and when the slug is free the caller's code up to its next await
Probe(p) ==
    /\ op[p].pc = "probe"
    /\ LET o == op[p]
       IN  op' = [op EXCEPT ![p] =
              IF isSlugTaken(o.slug, o.id)
              THEN [o EXCEPT !.slug = suffixed(o.baseSlug, o.counter),
                             !.counter = o.counter + 1]
              ELSE IF o.method = "create"
                   THEN [pc |-> "c_save", method |-> "create", req |-> o.req,
                         entity |-> newBlogPost(o.req, o.slug, now)]
                   ELSE afterSlug(o, objectAssign(o.req, [slug |-> o.slug]),
                                  o.post, now)]
    /\ UNCHANGED <<posts, nextId, now, applied>>

\* ------------------------------------------------------------ save
\* the row repository.save writes for entity e at time t: the entity after its
\* @BeforeInsert / @BeforeUpdate listeners
savedRow(e, t) == beforeSave(e, t)

\* @CreateDateColumn: the store stamps created_at on the INSERT, at time t
inserted(row, t) == objectAssign(row, [created_at |-> t])

\* BlogPostService.create: save (an INSERT under a fresh id)
CreateSave(p) ==
    /\ op[p].pc = "c_save"
    /\ LET row == savedRow(op[p].entity, now)
       IN  IF uniqueHolds(row.slug, nextId)
           THEN /\ posts' = posts @@ (nextId :> inserted(row, now))
                /\ nextId' = nextId + 1
                /\ op' = [op EXCEPT ![p] =
                            [pc |-> "c_read", method |-> "create", id |-> nextId,
                             req |-> op[p].req]]
           ELSE /\ op' = [op EXCEPT ![p] =
                            Done("create", "Internal", "Failed to create blog post")]
                /\ UNCHANGED <<posts, nextId>>
    /\ UNCHANGED <<now, applied>>

\* BlogPostService.create: findOne(savedPost.id)
CreateRead(p) ==
    /\ op[p].pc = "c_read"
    /\ op' = [op EXCEPT ![p] =
          IF op[p].id \in DOMAIN posts
          THEN Done("create", "ok", "")
          ELSE Done("create", "Internal", "Failed to create blog post")]
    /\ UNCHANGED <<posts, nextId, now, applied>>

\* BlogPostService.update: Object.assign and save (an UPDATE of the row, or an
\* INSERT under the same id when the row is gone)
UpdateSave(p) ==
    /\ op[p].pc = "u_save"
    /\ LET id == op[p].id
           row == savedRow(objectAssign(op[p].post, op[p].dto), now)
       IN  IF uniqueHolds(row.slug, id)
           THEN /\ posts' = (id :> row) @@ posts
                /\ op' = [op EXCEPT ![p] =
                            [pc |-> "u_read", method |-> "update", id |-> id,
                             req |-> op[p].req, post |-> op[p].post]]
           ELSE /\ op' = [op EXCEPT ![p] =
                            Done("update", "Internal", "Failed to update blog post")]
                /\ UNCHANGED posts
    /\ UNCHANGED <<nextId, now, applied>>

\* BlogPostService.update: findOne(updatedPost.id)
UpdateRead(p) ==
    /\ op[p].pc = "u_read"
    /\ op' = [op EXCEPT ![p] =
          IF op[p].id \in DOMAIN posts
          THEN Done("update", "ok", "") @@ [id |-> op[p].id, req |-> op[p].req]
          ELSE Done("update", "NotFound", "Blog post not found")]
    /\ UNCHANGED <<posts, nextId, now, applied>>

\* ------------------------------------------------------------ remove
\* a caller invokes BlogPostService.remove(id)
RemoveBegin(p, id) ==
    /\ Free(p)
    /\ op' = [op EXCEPT ![p] = [pc |-> "r_find", method |-> "remove", id |-> id]]
    /\ UNCHANGED <<posts, nextId, now, applied>>

\* BlogPostService.remove: findOne
RemoveFind(p) ==
    /\ op[p].pc = "r_find"
    /\ op' = [op EXCEPT ![p] =
          IF op[p].id \notin DOMAIN posts
          THEN Done("remove", "NotFound", "Blog post not found")
          ELSE [op[p] EXCEPT !.pc = "r_remove"]]
    /\ UNCHANGED <<posts, nextId, now, applied>>

\* remove whose repository.remove deletes nothing
RemoveKeeps(p) ==
    /\ op[p].pc = "r_remove"
    /\ op' = [op EXCEPT ![p] = Done("remove", "ok", "")]
    /\ UNCHANGED <<posts, nextId, now, applied>>

\* BlogPostService.remove: repository.remove(post)
RemoveDelete(p) ==
    /\ op[p].pc = "r_remove"
    /\ posts' = [j \in DOMAIN posts \ {op[p].id} |-> posts[j]]
    /\ op' = [op EXCEPT ![p] = Done("remove", "ok", "")]
    /\ UNCHANGED <<nextId, now, applied>>

\* ------------------------------------------------ incrementViewBySlug
\* the increments that are running and have not yet incremented their post
pendingIncrements == Cardinality({q \in Procs : op[q].pc \in {"i_find", "i_inc"}})

\* a caller invokes BlogPostService.incrementViewBySlug(slug)
IncrementBegin(p, slug) ==
    /\ Free(p)
    /\ \A j \in Ids : applied[j] + pendingIncrements < MaxViews
    /\ op' = [op EXCEPT ![p] =
          IF trim(slug) = <<>>
          THEN Done("increment", "BadRequest", "Valid slug is required")
          ELSE [pc |-> "i_find", method |-> "increment", slug |-> slug]]
    /\ UNCHANGED <<posts, nextId, now, applied>>

\* the rows findOne({ where: { slug, is_published: true } }) matches
publishedWithSlug(slug) ==
    {j \in DOMAIN posts : posts[j].slug = slug /\ posts[j].is_published}

\* BlogPostService.incrementViewBySlug: findOne
IncrementFind(p) ==
    /\ op[p].pc = "i_find"
    /\ LET found == publishedWithSlug(trim(op[p].slug))
       IN  op' = [op EXCEPT ![p] =
              IF found = {}
              THEN Done("increment", "NotFound", "Published blog post not found")
              ELSE LET j == CHOOSE j \in found : TRUE
                   IN  [pc |-> "i_inc", method |-> "increment", id |-> j,
                        post_view_count |-> posts[j].view_count]]
    /\ UNCHANGED <<posts, nextId, now, applied>>

\* an increment done in the application: the count read before, plus one
incrementedFromRead(view_count, seen) == seen + 1

\* what repository.increment({ id }, 'view_count', 1) makes of the stored
\* count; `seen` is the count the caller read before
incremented(view_count, seen) == view_count + 1

\* BlogPostService.incrementViewBySlug: repository.increment
IncrementApply(p) ==
    /\ op[p].pc = "i_inc"
    /\ LET id == op[p].id
       IN  /\ posts' = [j \in DOMAIN posts |->
                  IF j = id
                  THEN [posts[j] EXCEPT
                          !.view_count = incremented(posts[j].view_count,
                                                     op[p].post_view_count)]
                  ELSE posts[j]]
           /\ applied' = [applied EXCEPT ![id] =
                            IF id \in DOMAIN posts THEN @ + 1 ELSE @]
    /\ op' = [op EXCEPT ![p] = [op[p] EXCEPT !.pc = "i_read"]]
    /\ UNCHANGED <<nextId, now>>

\* a return value computed from the count read before the increment
estimatedCount(id, seen) == seen + 1

\* updatedPost?.view_count || post.view_count + 1
returnedCount(id, seen) ==
    IF id \in DOMAIN posts /\ posts[id].view_count # 0
    THEN posts[id].view_count
    ELSE seen + 1

\* BlogPostService.incrementViewBySlug: the read of the new count and the return
IncrementRead(p) ==
    /\ op[p].pc = "i_read"
    /\ op' = [op EXCEPT ![p] =
          [pc |-> "done", method |-> "increment", status |-> "ok", msg |-> "",
           id |-> op[p].id, post_view_count |-> op[p].post_view_count,
           value |-> returnedCount(op[p].id, op[p].post_view_count)]]
    /\ UNCHANGED <<posts, nextId, now, applied>>

\* ------------------------------------------------ failing write paths
\* The awaited repository call of a write method throws an error of the
\* store; the catch blocks on its way decide what the caller gets (`at` keeps
\* the call that threw, as the logged error does).

\* one turn of the loop of generateUniqueSlug whose isSlugTaken query throws:
\* the catch block of isSlugTaken returns false, the loop ends with the slug
\* it was testing and the caller goes on
ProbeFail(p) ==
    /\ op[p].pc = "probe"
    /\ LET o == op[p]
       IN  op' = [op EXCEPT ![p] =
              IF o.method = "create"
              THEN [pc |-> "c_save", method |-> "create", req |-> o.req,
                    entity |-> newBlogPost(o.req, o.slug, now)]
              ELSE afterSlug(o, objectAssign(o.req, [slug |-> o.slug]),
                             o.post, now)]
    /\ UNCHANGED <<posts, nextId, now, applied>>

\* create: save throws; the catch block throws InternalServerErrorException
CreateSaveFail(p) ==
    /\ op[p].pc = "c_save"
    /\ op' = [op EXCEPT ![p] =
                Done("create", "Internal", "Failed to create blog post") @@ [at |-> "c_save"]]
    /\ UNCHANGED <<posts, nextId, now, applied>>

\* create: findOne throws InternalServerErrorException, which the catch block
\* of create throws anew
CreateReadFail(p) ==
    /\ op[p].pc = "c_read"
    /\ op' = [op EXCEPT ![p] =
                Done("create", "Internal", "Failed to create blog post") @@ [at |-> "c_read"]]
    /\ UNCHANGED <<posts, nextId, now, applied>>

\* update: findOne of the repository throws
UpdateFindFail(p) ==
    /\ op[p].pc = "u_find"
    /\ op' = [op EXCEPT ![p] =
                Done("update", "Internal", "Failed to update blog post") @@ [at |-> "u_find"]]
    /\ UNCHANGED <<posts, nextId, now, applied>>

\* update: save throws
UpdateSaveFail(p) ==
    /\ op[p].pc = "u_save"
    /\ op' = [op EXCEPT ![p] =
                Done("update", "Internal", "Failed to update blog post") @@ [at |-> "u_save"]]
    /\ UNCHANGED <<posts, nextId, now, applied>>

\* update: findOne throws InternalServerErrorException, which the catch block
\* of update throws anew
UpdateReadFail(p) ==
    /\ op[p].pc = "u_read"
    /\ op' = [op EXCEPT ![p] =
                Done("update", "Internal", "Failed to update blog post") @@ [at |-> "u_read"]]
    /\ UNCHANGED <<posts, nextId, now, applied>>

\* remove: findOne of the repository throws
RemoveFindFail(p) ==
    /\ op[p].pc = "r_find"
    /\ op' = [op EXCEPT ![p] =
                Done("remove", "Internal", "Failed to delete blog post") @@ [at |-> "r_find"]]
    /\ UNCHANGED <<posts, nextId, now, applied>>

\* remove: repository.remove throws
RemoveDeleteFail(p) ==
    /\ op[p].pc = "r_remove"
    /\ op' = [op EXCEPT ![p] =
                Done("remove", "Internal", "Failed to delete blog post") @@ [at |-> "r_remove"]]
    /\ UNCHANGED <<posts, nextId, now, applied>>

\* incrementViewBySlug: the first findOne throws
IncrementFindFail(p) ==
    /\ op[p].pc = "i_find"
    /\ op' = [op EXCEPT ![p] =
                Done("increment", "Internal", "Failed to increment view count") @@ [at |-> "i_find"]]
    /\ UNCHANGED <<posts, nextId, now, applied>>

\* incrementViewBySlug: repository.increment throws
IncrementApplyFail(p) ==
    /\ op[p].pc = "i_inc"
    /\ op' = [op EXCEPT ![p] =
                Done("increment", "Internal", "Failed to increment view count") @@ [at |-> "i_inc"]]
    /\ UNCHANGED <<posts, nextId, now, applied>>

\* incrementViewBySlug: the second findOne throws
IncrementReadFail(p) ==
    /\ op[p].pc = "i_read"
    /\ op' = [op EXCEPT ![p] =
                Done("increment", "Internal", "Failed to increment view count") @@ [at |-> "i_read"]]
    /\ UNCHANGED <<posts, nextId, now, applied>>

\* ------------------------------------------------------------ findOne
\* BlogPost.toResponseObject: the post with its categories processed (no array
\* or an empty one gives [newsroom]; the members outside the vocabulary are
\* filtered out; nothing left gives [newsroom])
toResponseObject(post) ==
    LET processedCategories ==
            IF ~post.categories.array \/ Len(post.categories.items) = 0
            THEN <<NEWSROOM>>
            ELSE post.categories.items
        validCategories == SelectSeq(processedCategories, isValidCategory)
    IN  objectAssign(post,
            [categories |-> IF Len(validCategories) = 0
                            THEN Arr(<<NEWSROOM>>)
                            ELSE Arr(validCategories)])

\* a caller invokes BlogPostService.findOne(id)
FindOneBegin(p, id) ==
    /\ Free(p)
    /\ op' = [op EXCEPT ![p] = [pc |-> "o_find", method |-> "findOne", id |-> id]]
    /\ UNCHANGED <<posts, nextId, now, applied>>

\* BlogPostService.findOne: repository.findOne and the return
FindOneRead(p) ==
    /\ op[p].pc = "o_find"
    /\ op' = [op EXCEPT ![p] =
          IF op[p].id \notin DOMAIN posts
          THEN Done("findOne", "NotFound", "Blog post not found") @@ [id |-> op[p].id]
          ELSE Done("findOne", "ok", "")
                   @@ [id |-> op[p].id, value |-> toResponseObject(posts[op[p].id])]]
    /\ UNCHANGED <<posts, nextId, now, applied>>

\* ------------------------------------------------------------ queries
\* post.categories::text of a stored array: the JSON text, one entry per
\* bracket, quote, comma and category name (a name holds no quote and no
\* comma, so a quoted pattern can only match a whole name)
RECURSIVE jsonItems(_)
jsonItems(items) ==
    IF items = << >> THEN << >>
    ELSE <<"\"", Head(items), "\"">>
            \o (IF Tail(items) = << >> THEN << >> ELSE <<",">>)
            \o jsonItems(Tail(items))

jsonText(categories) ==
    IF categories.array THEN <<"[">> \o jsonItems(categories.items) \o <<"]">>
    ELSE << >>

\* post.categories::text LIKE '%"category"%'
likeQuoted(text, category) ==
    \E i \in 1..(Len(text) - 2) :
        text[i] = "\"" /\ text[i + 1] = category /\ text[i + 2] = "\""

\* the arrangements of the rows ids of a query without an ORDER BY
anyOrder(ids, key) ==
    {s \in [1..Cardinality(ids) -> ids] :
        \A i, j \in 1..Cardinality(ids) : s[i] = s[j] => i = j}

\* the orders in which a query may return the rows ids: every arrangement
\* with key descending (rows of equal key come in any order)
orderedDesc(ids, key) ==
    {s \in [1..Cardinality(ids) -> ids] :
        /\ \A i, j \in 1..Cardinality(ids) : s[i] = s[j] => i = j
        /\ \A i, j \in 1..Cardinality(ids) : i < j => key[s[i]] >= key[s[j]]}

\* .skip(skip).take(take) of an ordered result
skipTake(rows, skip, take) ==
    LET last == IF skip + take < Len(rows) THEN skip + take ELSE Len(rows)
    IN  IF skip + 1 > last THEN << >> ELSE SubSeq(rows, skip + 1, last)

\* Math.floor(a / b)
floorDiv(a, b) == a \div b

\* Math.ceil(a / b) for a >= 0 and b > 0
ceilDiv(a, b) == (a + b - 1) \div b

\* ------------------------------------------------------------ findAll
\* const { page = 1, limit = 10 } = query
DefaultPage == 1
DefaultLimit == 10

pageOf(query) == IF "page" \in DOMAIN query THEN query.page ELSE DefaultPage

limitOf(query) == IF "limit" \in DOMAIN query THEN query.limit ELSE DefaultLimit

\* categories && categories.length > 0
categoryFilterOn(query) ==
    /\ "categories" \in DOMAIN query
    /\ query.categories.truthy
    /\ query.categories.array => Len(query.categories.items) > 0

\* if (author_id)
authorFilterOn(query) == "author_id" \in DOMAIN query /\ query.author_id # << >>

\* the WHERE clause findAll builds for query
matchesFindAll(post, query) ==
    /\ authorFilterOn(query) => sameUuid(post.author_id, query.author_id)
    /\ "is_published" \in DOMAIN query => post.is_published = query.is_published
    /\ "is_featured" \in DOMAIN query => post.is_featured = query.is_featured
    /\ categoryFilterOn(query) =>
          LET validCategories == validateCategories(query.categories).items
          IN  \E i \in 1..Len(validCategories) :
                  likeQuoted(jsonText(post.categories), validCategories[i])

\* a caller invokes BlogPostService.findAll(query)
FindAllBegin(p, query) ==
    /\ Free(p)
    /\ op' = [op EXCEPT ![p] =
          IF authorFilterOn(query) /\ validateAuthor(query.author_id) # NoError
          THEN Done("findAll", "BadRequest", validateAuthor(query.author_id))
                   @@ [query |-> query]
          ELSE [pc |-> "l_count", method |-> "findAll", query |-> query]]
    /\ UNCHANGED <<posts, nextId, now, applied>>

\* BlogPostService.findAll: queryBuilder.getCount()
FindAllCount(p) ==
    /\ op[p].pc = "l_count"
    /\ op' = [op EXCEPT ![p] =
          [pc |-> "l_many", method |-> "findAll", query |-> op[p].query,
           total |-> Cardinality({id \in DOMAIN posts :
                                     matchesFindAll(posts[id], op[p].query)})]]
    /\ UNCHANGED <<posts, nextId, now, applied>>

\* BlogPostService.findAll: skip(skip).take(limit).getMany() and the return
FindAllMany(p) ==
    /\ op[p].pc = "l_many"
    /\ LET query == op[p].query
           page == pageOf(query)
           limit == limitOf(query)
           skip == (page - 1) * limit
           found == {id \in DOMAIN posts : matchesFindAll(posts[id], query)}
       IN  \E rows \in orderedDesc(found, [id \in found |-> posts[id].created_at]) :
              op' = [op EXCEPT ![p] =
                  [pc |-> "done", method |-> "findAll", status |-> "ok", msg |-> "",
                   query |-> query,
                   data |-> skipTake(rows, skip, limit),
                   total |-> op[p].total,
                   page |-> page,
                   limit |-> limit,
                   totalPages |-> ceilDiv(op[p].total, limit)]]
    /\ UNCHANGED <<posts, nextId, now, applied>>

\* ------------------------------------------------------ published views
\* order: { published_at: 'DESC' }: PostgreSQL puts the rows without a date
\* before every dated row of a descending order
publishedAtKey(ids) ==
    [id \in ids |-> IF posts[id].published_at = Null
                    THEN MaxTime + 1
                    ELSE posts[id].published_at]

\* a limit handed to take as it comes
unclamped(limit) == limit

\* Math.max(1, Math.min(limit, 50))
clampLimit(limit) ==
    LET least == IF limit < 50 THEN limit ELSE 50
    IN  IF least > 1 THEN least ELSE 1

\* a caller invokes BlogPostService.findPublished()
FindPublishedBegin(p) ==
    /\ Free(p)
    /\ op' = [op EXCEPT ![p] = [pc |-> "fp_find", method |-> "findPublished"]]
    /\ UNCHANGED <<posts, nextId, now, applied>>

\* BlogPostService.findPublished: repository.find and the return
FindPublishedQuery(p) ==
    /\ op[p].pc = "fp_find"
    /\ LET found == {id \in DOMAIN posts : posts[id].is_published}
       IN  \E rows \in orderedDesc(found, publishedAtKey(found)) :
              op' = [op EXCEPT ![p] =
                  [pc |-> "done", method |-> "findPublished", status |-> "ok",
                   msg |-> "", data |-> rows]]
    /\ UNCHANGED <<posts, nextId, now, applied>>

\* a caller invokes BlogPostService.findFeatured(limit)
FindFeaturedBegin(p, limit) ==
    /\ Free(p)
    /\ op' = [op EXCEPT ![p] =
                [pc |-> "ff_find", method |-> "findFeatured", limit |-> limit,
                 take |-> clampLimit(limit)]]
    /\ UNCHANGED <<posts, nextId, now, applied>>

\* BlogPostService.findFeatured: repository.find and the return
FindFeaturedQuery(p) ==
    /\ op[p].pc = "ff_find"
    /\ LET found == {id \in DOMAIN posts :
                         posts[id].is_published /\ posts[id].is_featured}
       IN  \E rows \in orderedDesc(found, publishedAtKey(found)) :
              op' = [op EXCEPT ![p] =
                  [pc |-> "done", method |-> "findFeatured", status |-> "ok",
                   msg |-> "", limit |-> op[p].limit, take |-> op[p].take,
                   data |-> skipTake(rows, 0, op[p].take)]]
    /\ UNCHANGED <<posts, nextId, now, applied>>

\* a caller invokes BlogPostService.findRecent(limit)
FindRecentBegin(p, limit) ==
    /\ Free(p)
    /\ op' = [op EXCEPT ![p] =
                [pc |-> "fr_find", method |-> "findRecent", limit |-> limit,
                 take |-> clampLimit(limit)]]
    /\ UNCHANGED <<posts, nextId, now, applied>>

\* BlogPostService.findRecent: repository.find and the return
FindRecentQuery(p) ==
    /\ op[p].pc = "fr_find"
    /\ LET found == {id \in DOMAIN posts : posts[id].is_published}
       IN  \E rows \in orderedDesc(found, publishedAtKey(found)) :
              op' = [op EXCEPT ![p] =
                  [pc |-> "done", method |-> "findRecent", status |-> "ok",
                   msg |-> "", limit |-> op[p].limit, take |-> op[p].take,
                   data |-> skipTake(rows, 0, op[p].take)]]
    /\ UNCHANGED <<posts, nextId, now, applied>>

\* ------------------------------------------------------ findByCategory
\* the filter of findByCategory in the application: no categories, no match;
\* an array matches when it includes the category; a value that is no array
\* stands for [value], and is no category name here
hasCategory(categories, category) ==
    IF ~categories.truthy THEN FALSE
    ELSE IF categories.array
         THEN \E i \in 1..Len(categories.items) : categories.items[i] = category
         ELSE FALSE

\* a caller invokes BlogPostService.findByCategory(category, published)
FindByCategoryBegin(p, category, published) ==
    /\ Free(p)
    /\ op' = [op EXCEPT ![p] =
          IF ~isValidCategory(category)
          THEN [pc |-> "done", method |-> "findByCategory", status |-> "BadRequest",
                msg |-> "Invalid category", category |-> category]
          ELSE [pc |-> "fc_find", method |-> "findByCategory",
                category |-> category, published |-> published]]
    /\ UNCHANGED <<posts, nextId, now, applied>>

\* BlogPostService.findByCategory: getMany, the filter and the return
FindByCategoryQuery(p) ==
    /\ op[p].pc = "fc_find"
    /\ LET category == op[p].category
           found == {id \in DOMAIN posts :
                        /\ op[p].published => posts[id].is_published
                        /\ likeQuoted(jsonText(posts[id].categories), category)}
           keeps(id) == hasCategory(posts[id].categories, category)
       IN  \E rows \in orderedDesc(found, publishedAtKey(found)) :
              op' = [op EXCEPT ![p] =
                  [pc |-> "done", method |-> "findByCategory", status |-> "ok",
                   msg |-> "", category |-> category, published |-> op[p].published,
                   data |-> SelectSeq(rows, keeps)]]
    /\ UNCHANGED <<posts, nextId, now, applied>>

\* -------------------------------------------------------- findByAuthor
\* a caller invokes BlogPostService.findByAuthor(author_id, includeUnpublished)
FindByAuthorBegin(p, author_id, includeUnpublished) ==
    /\ Free(p)
    /\ op' = [op EXCEPT ![p] =
          IF validateAuthor(author_id) # NoError
          THEN Done("findByAuthor", "BadRequest", validateAuthor(author_id))
                   @@ [author_id |-> author_id]
          ELSE [pc |-> "fa_find", method |-> "findByAuthor",
                author_id |-> author_id, includeUnpublished |-> includeUnpublished]]
    /\ UNCHANGED <<posts, nextId, now, applied>>

\* BlogPostService.findByAuthor: repository.find and the return
FindByAuthorQuery(p) ==
    /\ op[p].pc = "fa_find"
    /\ LET found == {id \in DOMAIN posts :
                        /\ sameUuid(posts[id].author_id, op[p].author_id)
                        /\ ~op[p].includeUnpublished => posts[id].is_published}
       IN  \E rows \in orderedDesc(found, [id \in found |-> posts[id].created_at]) :
              op' = [op EXCEPT ![p] =
                  Done("findByAuthor", "ok", "")
                      @@ [author_id |-> op[p].author_id,
                          includeUnpublished |-> op[p].includeUnpublished,
                          data |-> rows]]
    /\ UNCHANGED <<posts, nextId, now, applied>>

\* --------------------------------------------------------- searchPosts
\* text ILIKE '%term%' for a term without wildcard characters
ilikeContains(text, term) ==
    \E i \in 0..(Len(text) - Len(term)) :
        toLowerCase(SubSeq(text, i + 1, i + Len(term))) = toLowerCase(term)

\* queryBuilder.take(50)
SearchCap == 50

\* a caller invokes BlogPostService.searchPosts(searchTerm, onlyPublished)
SearchBegin(p, searchTerm, onlyPublished) ==
    /\ Free(p)
    /\ op' = [op EXCEPT ![p] =
          IF Len(trim(searchTerm)) < 2
          THEN Done("searchPosts", "ok", "")
                   @@ [searchTerm |-> searchTerm, data |-> << >>]
          ELSE [pc |-> "sp_find", method |-> "searchPosts",
                searchTerm |-> searchTerm, onlyPublished |-> onlyPublished]]
    /\ UNCHANGED <<posts, nextId, now, applied>>

\* BlogPostService.searchPosts: getMany and the return (the rows of the model
\* hold a title, no content and no excerpt)
SearchQuery(p) ==
    /\ op[p].pc = "sp_find"
    /\ LET found == {id \in DOMAIN posts :
                        /\ ilikeContains(posts[id].title, trim(op[p].searchTerm))
                        /\ op[p].onlyPublished => posts[id].is_published}
       IN  \E rows \in orderedDesc(found, publishedAtKey(found)) :
              op' = [op EXCEPT ![p] =
                  Done("searchPosts", "ok", "")
                      @@ [searchTerm |-> op[p].searchTerm,
                          data |-> skipTake(rows, 0, SearchCap)]]
    /\ UNCHANGED <<posts, nextId, now, applied>>

\* ------------------------------------------------ failing read queries
\* The awaited query of a read method throws an error of the store; the
\* method's catch block ends the call.
\* findAll: getCount or getMany throws; the catch block throws
\* InternalServerErrorException
FindAllFail(p) ==
    /\ op[p].pc \in {"l_count", "l_many"}
    /\ op' = [op EXCEPT ![p] = 
          Done("findAll", "Internal", "Failed to retrieve blog posts")]
    /\ UNCHANGED <<posts, nextId, now, applied>>

\* findByCategory: getMany throws; the catch block returns []
FindByCategoryFail(p) ==
    /\ op[p].pc \in {"fc_find"}
    /\ op' = [op EXCEPT ![p] = 
          Done("findByCategory", "ok", "") @@ [data |-> << >>]]
    /\ UNCHANGED <<posts, nextId, now, applied>>

\* findByAuthor: find throws; the catch block returns []
FindByAuthorFail(p) ==
    /\ op[p].pc \in {"fa_find"}
    /\ op' = [op EXCEPT ![p] = 
          Done("findByAuthor", "ok", "") @@ [data |-> << >>]]
    /\ UNCHANGED <<posts, nextId, now, applied>>

\* findPublished: find throws; the catch block returns []
FindPublishedFail(p) ==
    /\ op[p].pc \in {"fp_find"}
    /\ op' = [op EXCEPT ![p] = 
          Done("findPublished", "ok", "") @@ [data |-> << >>]]
    /\ UNCHANGED <<posts, nextId, now, applied>>

\* findFeatured: find throws; the catch block returns []
FindFeaturedFail(p) ==
    /\ op[p].pc \in {"ff_find"}
    /\ op' = [op EXCEPT ![p] = 
          Done("findFeatured", "ok", "") @@ [data |-> << >>]]
    /\ UNCHANGED <<posts, nextId, now, applied>>

\* findRecent: find throws; the catch block returns []
FindRecentFail(p) ==
    /\ op[p].pc \in {"fr_find"}
    /\ op' = [op EXCEPT ![p] = 
          Done("findRecent", "ok", "") @@ [data |-> << >>]]
    /\ UNCHANGED <<posts, nextId, now, applied>>

\* searchPosts: getMany throws; the catch block returns []
SearchFail(p) ==
    /\ op[p].pc \in {"sp_find"}
    /\ op' = [op EXCEPT ![p] = 
          Done("searchPosts", "ok", "") @@ [data |-> << >>]]
    /\ UNCHANGED <<posts, nextId, now, applied>>

\* ------------------------------------------------------------ statistics
\* the value of a decimal digit
digitValue(c) ==
    CASE c = "0" -> 0 [] c = "1" -> 1 [] c = "2" -> 2 [] c = "3" -> 3
      [] c = "4" -> 4 [] c = "5" -> 5 [] c = "6" -> 6 [] c = "7" -> 7
      [] c = "8" -> 8 [] c = "9" -> 9

\* parseInt(text, 10) of a text of decimal digits
RECURSIVE parseInt(_)
parseInt(text) ==
    IF text = << >> THEN 0
    ELSE 10 * parseInt(SubSeq(text, 1, Len(text) - 1)) + digitValue(text[Len(text)])

\* SUM(post.view_count) over the rows ids
RECURSIVE sumViewCount(_)
sumViewCount(ids) ==
    IF ids = {} THEN 0
    ELSE LET id == CHOOSE id \in ids : TRUE
         IN  posts[id].view_count + sumViewCount(ids \ {id})

\* the total getRawOne returns for SUM: its text, and no text (SQL NULL) when
\* no row is summed
rawSum(ids) == IF ids = {} THEN << >> ELSE numberToString(sumViewCount(ids))

publishedIds == {id \in DOMAIN posts : posts[id].is_published}

\* the five counters getStatistics starts together in Promise.all
Counters == {"total", "published", "drafts", "featured", "total_views"}

\* count, countPublished, countDrafts, countFeatured and gettotal_views, by
\* the name of the result each fills
counterValue(name) ==
    CASE name = "total" -> Cardinality(DOMAIN posts)
      [] name = "published" -> Cardinality(publishedIds)
      [] name = "drafts" ->
            Cardinality({id \in DOMAIN posts : ~posts[id].is_published})
      [] name = "featured" ->
            Cardinality({id \in publishedIds : posts[id].is_featured})
      [] name = "total_views" ->
            LET total == rawSum(publishedIds)
            IN  parseInt(IF total = << >> THEN <<"0">> ELSE total)

\* countby_category without its is_published condition
countAllby_category(category) ==
    Cardinality({id \in DOMAIN posts :
                    likeQuoted(jsonText(posts[id].categories), category)})

\* BlogPostService.countby_category
countby_category(category) ==
    Cardinality({id \in publishedIds :
                    likeQuoted(jsonText(posts[id].categories), category)})

\* sevenDaysAgo.setDate(sevenDaysAgo.getDate() - 7), the clock counting days
SevenDays == 7

\* a caller invokes BlogPostService.getStatistics(): the five counters start
StatsBegin(p) ==
    /\ Free(p)
    /\ op' = [op EXCEPT ![p] =
                [pc |-> "s_counts", method |-> "getStatistics",
                 pending |-> Counters, stats |-> << >>]]
    /\ UNCHANGED <<posts, nextId, now, applied>>

\* getStatistics: one of the counters of Promise.all runs its query; when the
\* last has run, the code up to the next await
StatsCount(p) ==
    /\ op[p].pc = "s_counts"
    /\ \E name \in op[p].pending :
          op' = [op EXCEPT ![p] =
              [pc |-> IF op[p].pending = {name} THEN "s_recent" ELSE "s_counts",
               method |-> "getStatistics",
               pending |-> op[p].pending \ {name},
               stats |-> op[p].stats @@ (name :> counterValue(name))]]
    /\ UNCHANGED <<posts, nextId, now, applied>>

\* getStatistics: the count of the posts published in the last seven days
StatsRecent(p) ==
    /\ op[p].pc = "s_recent"
    /\ LET sevenDaysAgo == now - SevenDays
           recently_published ==
               Cardinality({id \in publishedIds :
                               /\ posts[id].published_at # Null
                               /\ posts[id].published_at > sevenDaysAgo})
       IN  op' = [op EXCEPT ![p] =
              [pc |-> "s_category", method |-> "getStatistics",
               stats |-> op[p].stats @@ [recently_published |-> recently_published],
               by_category |-> << >>, index |-> 1]]
    /\ UNCHANGED <<posts, nextId, now, applied>>

\* getStatistics: one turn of the loop over Object.values(BlogCategory), and
\* the return after the last
StatsCategory(p) ==
    /\ op[p].pc = "s_category"
    /\ LET category == BlogCategory[op[p].index]
           by_category == op[p].by_category
                              @@ (category :> countby_category(category))
       IN  op' = [op EXCEPT ![p] =
              IF op[p].index < Len(BlogCategory)
              THEN [op[p] EXCEPT !.by_category = by_category,
                                 !.index = op[p].index + 1]
              ELSE [pc |-> "done", method |-> "getStatistics", status |-> "ok",
                    msg |-> "",
                    value |-> op[p].stats @@ [by_category |-> by_category]]]
    /\ UNCHANGED <<posts, nextId, now, applied>>

\* the statistics of the catch block of getStatistics
zeroStatistics ==
    [total |-> 0, published |-> 0, drafts |-> 0, featured |-> 0,
     recently_published |-> 0, total_views |-> 0,
     by_category |-> [c \in {BlogCategory[i] : i \in 1..Len(BlogCategory)} |-> 0]]

\* getStatistics: the query of one of the five counters throws; the catch
\* block of count, countPublished, countDrafts, countFeatured or
\* gettotal_views returns 0 for it
StatsCountFail(p) ==
    /\ op[p].pc = "s_counts"
    /\ \E name \in op[p].pending :
          op' = [op EXCEPT ![p] =
              [pc |-> IF op[p].pending = {name} THEN "s_recent" ELSE "s_counts",
               method |-> "getStatistics",
               pending |-> op[p].pending \ {name},
               stats |-> op[p].stats @@ (name :> 0)]]
    /\ UNCHANGED <<posts, nextId, now, applied>>

\* getStatistics: the count of the recently published posts throws; the catch
\* block of getStatistics returns the statistics of zeros
StatsRecentFail(p) ==
    /\ op[p].pc = "s_recent"
    /\ op' = [op EXCEPT ![p] =
                Done("getStatistics", "ok", "") @@ [value |-> zeroStatistics]]
    /\ UNCHANGED <<posts, nextId, now, applied>>

\* getStatistics: the query of countby_category throws in one turn of the
\* loop; its catch block returns 0 for the category
StatsCategoryFail(p) ==
    /\ op[p].pc = "s_category"
    /\ LET category == BlogCategory[op[p].index]
           by_category == op[p].by_category @@ (category :> 0)
       IN  op' = [op EXCEPT ![p] =
              IF op[p].index < Len(BlogCategory)
              THEN [op[p] EXCEPT !.by_category = by_category,
                                 !.index = op[p].index + 1]
              ELSE [pc |-> "done", method |-> "getStatistics", status |-> "ok",
                    msg |-> "",
                    value |-> op[p].stats @@ [by_category |-> by_category]]]
    /\ UNCHANGED <<posts, nextId, now, applied>>

\* ------------------------------------------------------------ clock
Tick ==
    /\ now < MaxTime
    /\ now' = now + 1
    /\ UNCHANGED <<posts, nextId, op, applied>>

\* ------------------------------------------------------------ requests
\* the objects that set property f to a value of vals
Field(f, vals) == {(f :> v) : v \in vals}

\* the objects that set property f to a value of vals, or leave it unset
OptField(f, vals) == {<< >>} \cup Field(f, vals)

Flag(f) == OptField(f, BOOLEAN)

NoField == {<< >>}

DTOs(titles, published, featured, categories) ==
    {t @@ a @@ b @@ c : t \in titles, a \in published, b \in featured, c \in categories}

TitleAb == <<"A", "b", "!">>
TitleAB == <<"a", " ", "B">>

Titles == {TitleAb, TitleAB}

CategoryInputs ==
    {JsNull, JsText, Arr(<< >>), Arr(<<"invalid">>),
     Arr(<<"achievements", "invalid", "achievements", "newsroom">>)}

\* ---------------------------------------------------------- SpecPublish
\* The publish / feature state machine of one post: every combination of the
\* two flags on create and on update, the post removed and saved again, two
\* requests in flight, the clock moving.
OnePost == 1

FlagCreateDTOs ==
    DTOs(Field("title", {TitleAb}), Flag("is_published"), Flag("is_featured"), NoField)

FlagUpdateDTOs == DTOs(NoField, Flag("is_published"), Flag("is_featured"), NoField)

NextPublish ==
    \/ Tick
    \/ \E p \in Procs :
        \/ \E dto \in FlagCreateDTOs : created < OnePost /\ CreateBegin(p, dto)
        \/ \E id \in 1..OnePost, dto \in FlagUpdateDTOs : UpdateBegin(p, id, dto)
        \/ \E id \in 1..OnePost : RemoveBegin(p, id)
        \/ Probe(p)
        \/ CreateSave(p)
        \/ CreateRead(p)
        \/ UpdateFind(p)
        \/ UpdateSave(p)
        \/ UpdateRead(p)
        \/ RemoveFind(p)
        \/ RemoveDelete(p)

SpecPublish == Init /\ [][NextPublish]_vars

\* ---------------------------------------------------------- SpecRequest
\* One request at a time, with everything a request can carry: titles, every
\* flag combination, category values that are null, no array, empty, invalid,
\* duplicated and valid.
Serial == {1}

CreateDTOs ==
    DTOs(Field("title", Titles), Flag("is_published"), Flag("is_featured"),
         OptField("categories", CategoryInputs))

UpdateDTOs ==
    DTOs(OptField("title", Titles), Flag("is_published"), Flag("is_featured"),
         OptField("categories", CategoryInputs))

NextRequest ==
    \E p \in Serial :
        \/ \E dto \in CreateDTOs : created < OnePost /\ CreateBegin(p, dto)
        \/ \E id \in 1..OnePost, dto \in UpdateDTOs : UpdateBegin(p, id, dto)
        \/ \E id \in 1..OnePost : RemoveBegin(p, id)
        \/ Probe(p)
        \/ CreateSave(p)
        \/ CreateRead(p)
        \/ UpdateFind(p)
        \/ UpdateSave(p)
        \/ UpdateRead(p)
        \/ RemoveFind(p)
        \/ RemoveDelete(p)

SpecRequest == Init /\ [][NextRequest]_vars

\* ------------------------------------------------------------- SpecSlug
\* Two requests in flight that create posts and change titles, with titles
\* whose base slugs collide.
TitleDTOs == DTOs(Field("title", Titles), NoField, NoField, NoField)

NextSlug ==
    \E p \in Procs :
        \/ \E dto \in TitleDTOs : CreateBegin(p, dto)
        \/ \E id \in Ids, dto \in TitleDTOs : UpdateBegin(p, id, dto)
        \/ Probe(p)
        \/ CreateSave(p)
        \/ CreateRead(p)
        \/ UpdateFind(p)
        \/ UpdateSave(p)
        \/ UpdateRead(p)

SpecSlug == Init /\ [][NextSlug]_vars

\* ------------------------------------------------------------ SpecViews
\* One post that is viewed while it is published, unpublished and edited: two
\* requests in flight.
ViewCreateDTOs == DTOs(Field("title", {TitleAb}), Flag("is_published"), NoField, NoField)

ViewUpdateDTOs == DTOs(NoField, Flag("is_published"), NoField, NoField)

ViewSlugs == {generateSlug(TitleAb), generateSlug(TitleAB)}

NextViews ==
    \E p \in Procs :
        \/ \E dto \in ViewCreateDTOs : created < OnePost /\ CreateBegin(p, dto)
        \/ \E id \in 1..OnePost, dto \in ViewUpdateDTOs : UpdateBegin(p, id, dto)
        \/ \E slug \in ViewSlugs : IncrementBegin(p, slug)
        \/ Probe(p)
        \/ CreateSave(p)
        \/ CreateRead(p)
        \/ UpdateFind(p)
        \/ UpdateSave(p)
        \/ UpdateRead(p)
        \/ IncrementFind(p)
        \/ IncrementApply(p)
        \/ IncrementRead(p)

SpecViews == Init /\ [][NextViews]_vars

\* ------------------------------------------------------- SpecIncrement
\* Posts whose only writers, once they are created, are increments: two
\* requests in flight.
PublishedDTOs ==
    DTOs(Field("title", Titles), Field("is_published", {TRUE}), NoField, NoField)

NextIncrement ==
    \E p \in Procs :
        \/ \E dto \in PublishedDTOs : CreateBegin(p, dto)
        \/ \E slug \in ViewSlugs : IncrementBegin(p, slug)
        \/ Probe(p)
        \/ CreateSave(p)
        \/ CreateRead(p)
        \/ IncrementFind(p)
        \/ IncrementApply(p)
        \/ IncrementRead(p)

SpecIncrement == Init /\ [][NextIncrement]_vars

\* ------------------------------------------------------- SpecNormalize
\* validateCategories on its own: a call holds its argument and returns the
\* validated array.
MaxItems == 4

\* the values an array of categories can hold: the vocabulary and a stranger
CategoryValues ==
    {"newsroom", "thought-pieces", "achievements", "awards-recognition", "invalid"}

RECURSIVE SeqsUpTo(_, _)
SeqsUpTo(S, n) ==
    IF n = 0 THEN {<< >>}
    ELSE LET shorter == SeqsUpTo(S, n - 1)
         IN  shorter \cup {Append(s, x) : s \in {q \in shorter : Len(q) = n - 1}, x \in S}

\* undefined / null, a value that is no array, and the arrays of up to
\* MaxItems values
NormalizeInputs == {JsNull, JsText} \cup {Arr(s) : s \in SeqsUpTo(CategoryValues, MaxItems)}

InitNormalize ==
    /\ posts = << >>
    /\ nextId = 1
    /\ now = 1
    /\ applied = [id \in Ids |-> 0]
    /\ \E c \in NormalizeInputs :
          op = [p \in Procs |->
                  IF p \in Serial
                  THEN [pc |-> "v_call", method |-> "validateCategories",
                        categories |-> c]
                  ELSE Idle]

\* BlogPostService.validateCategories runs and returns
ValidateReturn(p) ==
    /\ op[p].pc = "v_call"
    /\ op' = [op EXCEPT ![p] =
          [pc |-> "done", method |-> "validateCategories", status |-> "ok",
           msg |-> "", categories |-> op[p].categories,
           value |-> validateCategories(op[p].categories)]]
    /\ UNCHANGED <<posts, nextId, now, applied>>

NextNormalize == \E p \in Serial : ValidateReturn(p)

SpecNormalize == InitNormalize /\ [][NextNormalize]_vars

\* ------------------------------------------------------------ SpecProbe
\* generateUniqueSlug with no other writer: one request at a time creates
\* posts, changes titles and removes posts, with titles that share a base slug.
TitleLower == <<"a", "b">>

ProbeDTOs == DTOs(Field("title", Titles \cup {TitleLower}), NoField, NoField, NoField)

NextProbe ==
    \E p \in Serial :
        \/ \E dto \in ProbeDTOs : CreateBegin(p, dto)
        \/ \E id \in Ids, dto \in ProbeDTOs : UpdateBegin(p, id, dto)
        \/ \E id \in Ids : RemoveBegin(p, id)
        \/ Probe(p)
        \/ CreateSave(p)
        \/ CreateRead(p)
        \/ UpdateFind(p)
        \/ UpdateSave(p)
        \/ UpdateRead(p)
        \/ RemoveFind(p)
        \/ RemoveDelete(p)

SpecProbe == Init /\ [][NextProbe]_vars

\* ------------------------------------------------------------- SpecList
\* findAll over stores of drafts and published posts of several categories
\* created at several times: one request at a time.
ListCategories == {Arr(<<"achievements">>), Arr(<<"newsroom", "thought-pieces">>)}

ListCreateDTOs ==
    DTOs(Field("title", {TitleAb}), Flag("is_published"), NoField,
         OptField("categories", ListCategories))

MaxPage == 3

Queries(pages, limits, published, categories) ==
    {a @@ b @@ c @@ e : a \in pages, b \in limits, c \in published, e \in categories}

ListQueries ==
    Queries(OptField("page", 1..MaxPage), OptField("limit", 1..MaxPosts),
            Flag("is_published"),
            OptField("categories",
                     {Arr(<< >>), Arr(<<"invalid">>), Arr(<<"achievements">>),
                      Arr(<<"thought-pieces", "awards-recognition">>)}))

NextList ==
    \/ Tick
    \/ \E p \in Serial :
        \/ \E dto \in ListCreateDTOs : CreateBegin(p, dto)
        \/ \E query \in ListQueries : FindAllBegin(p, query)
        \/ Probe(p)
        \/ CreateSave(p)
        \/ CreateRead(p)
        \/ FindAllCount(p)
        \/ FindAllMany(p)

SpecList == Init /\ [][NextList]_vars

\* ------------------------------------------------------------ SpecStats
\* getStatistics over stores of drafts, published and featured posts of
\* several categories, some viewed and then unpublished: one request at a
\* time.
StatsCreateDTOs ==
    DTOs(Field("title", {TitleAb}), Flag("is_published"), Flag("is_featured"),
         OptField("categories", ListCategories))

StatsUpdateDTOs == DTOs(NoField, Field("is_published", {FALSE}), NoField, NoField)

NextStats ==
    \E p \in Serial :
        \/ \E dto \in StatsCreateDTOs : CreateBegin(p, dto)
        \/ \E id \in Ids, dto \in StatsUpdateDTOs : UpdateBegin(p, id, dto)
        \/ \E slug \in {generateSlug(TitleAb), suffixed(generateSlug(TitleAb), 1)} :
              IncrementBegin(p, slug)
        \/ StatsBegin(p)
        \/ Probe(p)
        \/ CreateSave(p)
        \/ CreateRead(p)
        \/ UpdateFind(p)
        \/ UpdateSave(p)
        \/ UpdateRead(p)
        \/ IncrementFind(p)
        \/ IncrementApply(p)
        \/ IncrementRead(p)
        \/ StatsCount(p)
        \/ StatsRecent(p)
        \/ StatsCategory(p)

SpecStats == Init /\ [][NextStats]_vars

\* ------------------------------------------------------------- SpecFind
\* The published views and findByCategory over stores of drafts, published
\* and featured posts of several categories, published at several times: one
\* request at a time.
FindUpdateDTOs == DTOs(NoField, Field("is_published", {TRUE}), NoField, NoField)

\* limits below, inside and above the range of take
Limits == {0 - 1, 0, 1, 2, 51}

NextFind ==
    \/ Tick
    \/ \E p \in Serial :
        \/ \E dto \in StatsCreateDTOs : CreateBegin(p, dto)
        \/ \E id \in Ids, dto \in FindUpdateDTOs : UpdateBegin(p, id, dto)
        \/ FindPublishedBegin(p)
        \/ \E limit \in Limits : FindFeaturedBegin(p, limit)
        \/ \E limit \in Limits : FindRecentBegin(p, limit)
        \/ \E category \in {"newsroom", "achievements", "invalid"}, published \in BOOLEAN :
              FindByCategoryBegin(p, category, published)
        \/ Probe(p)
        \/ CreateSave(p)
        \/ CreateRead(p)
        \/ UpdateFind(p)
        \/ UpdateSave(p)
        \/ UpdateRead(p)
        \/ FindPublishedQuery(p)
        \/ FindFeaturedQuery(p)
        \/ FindRecentQuery(p)
        \/ FindByCategoryQuery(p)

SpecFind == Init /\ [][NextFind]_vars

\* ----------------------------------------------------------- SpecRemove
\* Posts created, updated, removed and created again under the same title,
\* and read by id, listed and counted in between: one request at a time.
NextRemove ==
    \E p \in Serial :
        \/ \E dto \in ViewCreateDTOs : CreateBegin(p, dto)
        \/ \E id \in Ids, dto \in ViewUpdateDTOs : UpdateBegin(p, id, dto)
        \/ \E id \in Ids : RemoveBegin(p, id)
        \/ \E id \in Ids : FindOneBegin(p, id)
        \/ FindAllBegin(p, << >>)
        \/ FindPublishedBegin(p)
        \/ StatsBegin(p)
        \/ Probe(p)
        \/ CreateSave(p)
        \/ CreateRead(p)
        \/ UpdateFind(p)
        \/ UpdateSave(p)
        \/ UpdateRead(p)
        \/ RemoveFind(p)
        \/ RemoveDelete(p)
        \/ FindOneRead(p)
        \/ FindAllCount(p)
        \/ FindAllMany(p)
        \/ FindPublishedQuery(p)
        \/ StatsCount(p)
        \/ StatsRecent(p)
        \/ StatsCategory(p)

SpecRemove == Init /\ [][NextRemove]_vars

\* ----------------------------------------------------------- SpecRepeat
\* The publish / feature requests of SpecPublish sent one at a time, each
\* accepted update sent a second time by the second slot before anything
\* else is sent, the clock moving.
First == 1
Second == 2

\* the first slot has an accepted update to show, and nothing is running
Repeatable ==
    /\ op[First].pc = "done"
    /\ op[First].method = "update"
    /\ op[First].status = "ok"

NextRepeat ==
    \/ Tick
    \/ \E dto \in FlagCreateDTOs :
          Free(Second) /\ created < OnePost /\ CreateBegin(First, dto)
    \/ \E id \in 1..OnePost, dto \in FlagUpdateDTOs :
          Free(Second) /\ UpdateBegin(First, id, dto)
    \/ Repeatable /\ UpdateBegin(Second, op[First].id, op[First].req)
    \/ \E p \in Procs :
        \/ Probe(p)
        \/ CreateSave(p)
        \/ CreateRead(p)
        \/ UpdateFind(p)
        \/ UpdateSave(p)
        \/ UpdateRead(p)

SpecRepeat == Init /\ [][NextRepeat]_vars

\* ------------------------------------------------------------ SpecFrame
\* One post whose flags are set by some requests and whose title and
\* categories are changed by others, one request at a time, the clock moving.
FrameDTOs ==
    DTOs(OptField("title", Titles), NoField, NoField,
         OptField("categories", {JsNull, Arr(<<"invalid">>), Arr(<<"achievements">>)}))

NextFrame ==
    \/ Tick
    \/ \E p \in Serial :
        \/ \E dto \in FlagCreateDTOs : created < OnePost /\ CreateBegin(p, dto)
        \/ \E id \in 1..OnePost, dto \in FlagUpdateDTOs \cup FrameDTOs :
              UpdateBegin(p, id, dto)
        \/ Probe(p)
        \/ CreateSave(p)
        \/ CreateRead(p)
        \/ UpdateFind(p)
        \/ UpdateSave(p)
        \/ UpdateRead(p)

SpecFrame == Init /\ [][NextFrame]_vars

\* ---------------------------------------------------------- SpecRetitle
\* One request at a time creates posts, removes them and updates them with
\* and without a title; some titles differ and share a base slug.
RetitleDTOs ==
    DTOs(OptField("title", Titles \cup {TitleLower}), NoField, NoField, NoField)

NextRetitle ==
    \E p \in Serial :
        \/ \E dto \in ProbeDTOs : CreateBegin(p, dto)
        \/ \E id \in Ids, dto \in RetitleDTOs : UpdateBegin(p, id, dto)
        \/ \E id \in Ids : RemoveBegin(p, id)
        \/ Probe(p)
        \/ CreateSave(p)
        \/ CreateRead(p)
        \/ UpdateFind(p)
        \/ UpdateSave(p)
        \/ UpdateRead(p)
        \/ RemoveFind(p)
        \/ RemoveDelete(p)

SpecRetitle == Init /\ [][NextRetitle]_vars

\* ----------------------------------------------------------- SpecStored
\* A post whose categories column is also written by a process other than
\* this service, read back with findOne, one request at a time.
MaxStored == 2

\* the JSON values the categories column can hold: a value that is no array
\* and the arrays of up to MaxStored strings
StoredValues == {JsText} \cup {Arr(s) : s \in SeqsUpTo(CategoryValues, MaxStored)}

\* another process writes the categories column of a row
ForeignWrite(id, categories) ==
    /\ id \in DOMAIN posts
    /\ posts' = [posts EXCEPT ![id] = [@ EXCEPT !.categories = categories]]
    /\ UNCHANGED <<nextId, now, op, applied>>

NextStored ==
    \/ \E id \in 1..OnePost, categories \in StoredValues : ForeignWrite(id, categories)
    \/ \E p \in Serial :
        \/ \E dto \in ListCreateDTOs : created < OnePost /\ CreateBegin(p, dto)
        \/ \E id \in 1..OnePost : FindOneBegin(p, id)
        \/ Probe(p)
        \/ CreateSave(p)
        \/ CreateRead(p)
        \/ FindOneRead(p)

SpecStored == Init /\ [][NextStored]_vars

\* --------------------------------------------------------- SpecValidate
\* The query methods called with well-formed and malformed arguments, one
\* request at a time, on the posts of one author.
AuthorIds ==
    {Author, Uuid("A", "4", "8"), Uuid("B", "1", "b"), Uuid("a", "0", "8"),
     Uuid("a", "4", "c"), <<"a", "b">>}

ValidateQueries ==
    Queries(NoField, NoField, OptField("author_id", AuthorIds),
            OptField("categories",
                     {Arr(<<"invalid">>), Arr(<<"achievements">>),
                      Arr(<<"invalid", "achievements">>)}))

NextValidate ==
    \E p \in Serial :
        \/ \E dto \in ListCreateDTOs : CreateBegin(p, dto)
        \/ \E query \in ValidateQueries : FindAllBegin(p, query)
        \/ \E category \in CategoryValues, published \in BOOLEAN :
              FindByCategoryBegin(p, category, published)
        \/ \E author_id \in AuthorIds \cup {<< >>}, includeUnpublished \in BOOLEAN :
              FindByAuthorBegin(p, author_id, includeUnpublished)
        \/ Probe(p)
        \/ CreateSave(p)
        \/ CreateRead(p)
        \/ FindAllCount(p)
        \/ FindAllMany(p)
        \/ FindByCategoryQuery(p)
        \/ FindByAuthorQuery(p)

SpecValidate == Init /\ [][NextValidate]_vars

\* ----------------------------------------------------------- SpecOutage
\* The read methods on a store whose queries can fail, one request at a time.
SearchTerms == {<<"a">>, <<"a", "B">>, <<" ", "b", "!", " ">>, <<"b", "b">>}

OutageQueries ==
    Queries(OptField("limit", {1}), NoField, Flag("is_published"), NoField)

NextOutage ==
    \E p \in Serial :
        \/ \E dto \in ListCreateDTOs : CreateBegin(p, dto)
        \/ Probe(p)
        \/ CreateSave(p)
        \/ CreateRead(p)
        \/ \E query \in OutageQueries : FindAllBegin(p, query)
        \/ FindAllCount(p)
        \/ FindAllMany(p)
        \/ FindAllFail(p)
        \/ \E category \in {"newsroom", "achievements"}, published \in BOOLEAN :
              FindByCategoryBegin(p, category, published)
        \/ FindByCategoryQuery(p)
        \/ FindByCategoryFail(p)
        \/ \E includeUnpublished \in BOOLEAN :
              FindByAuthorBegin(p, Author, includeUnpublished)
        \/ FindByAuthorQuery(p)
        \/ FindByAuthorFail(p)
        \/ FindPublishedBegin(p)
        \/ FindPublishedQuery(p)
        \/ FindPublishedFail(p)
        \/ \E limit \in {1, 2} : FindFeaturedBegin(p, limit)
        \/ FindFeaturedQuery(p)
        \/ FindFeaturedFail(p)
        \/ \E limit \in {1, 2} : FindRecentBegin(p, limit)
        \/ FindRecentQuery(p)
        \/ FindRecentFail(p)
        \/ \E searchTerm \in SearchTerms, onlyPublished \in BOOLEAN :
              SearchBegin(p, searchTerm, onlyPublished)
        \/ SearchQuery(p)
        \/ SearchFail(p)

SpecOutage == Init /\ [][NextOutage]_vars

\* ------------------------------------------------------ SpecStatsOutage
\* getStatistics on a store whose queries can fail, one request at a time,
\* over stores of drafts and published posts.
OutageCreateDTOs ==
    DTOs(Field("title", {TitleAb}), Flag("is_published"), NoField,
         OptField("categories", {Arr(<<"achievements">>)}))

NextStatsOutage ==
    \E p \in Serial :
        \/ \E dto \in OutageCreateDTOs : CreateBegin(p, dto)
        \/ StatsBegin(p)
        \/ Probe(p)
        \/ CreateSave(p)
        \/ CreateRead(p)
        \/ StatsCount(p)
        \/ StatsCountFail(p)
        \/ StatsRecent(p)
        \/ StatsRecentFail(p)
        \/ StatsCategory(p)
        \/ StatsCategoryFail(p)

SpecStatsOutage == Init /\ [][NextStatsOutage]_vars

\* ------------------------------------------------------ SpecWriteOutage
\* create, update, remove and incrementViewBySlug on a store whose calls can
\* fail, one request at a time, with requests that are valid, that name no
\* post, that carry no usable title or slug, and that feature a draft.
EmptyText == << >>

OutageWriteDTOs ==
    DTOs(Field("title", {TitleAb, EmptyText}), Flag("is_published"), NoField, NoField)

OutageUpdateDTOs ==
    DTOs(OptField("title", {TitleAB}), Flag("is_published"), Flag("is_featured"),
         NoField)

NextWriteOutage ==
    \E p \in Serial :
        \/ \E dto \in OutageWriteDTOs : CreateBegin(p, dto)
        \/ \E id \in Ids, dto \in OutageUpdateDTOs : UpdateBegin(p, id, dto)
        \/ \E id \in Ids : RemoveBegin(p, id)
        \/ \E slug \in ViewSlugs \cup {<<" ">>} : IncrementBegin(p, slug)
        \/ Probe(p)
        \/ ProbeFail(p)
        \/ CreateSave(p)
        \/ CreateSaveFail(p)
        \/ CreateRead(p)
        \/ CreateReadFail(p)
        \/ UpdateFind(p)
        \/ UpdateFindFail(p)
        \/ UpdateSave(p)
        \/ UpdateSaveFail(p)
        \/ UpdateRead(p)
        \/ UpdateReadFail(p)
        \/ RemoveFind(p)
        \/ RemoveFindFail(p)
        \/ RemoveDelete(p)
        \/ RemoveDeleteFail(p)
        \/ IncrementFind(p)
        \/ IncrementFindFail(p)
        \/ IncrementApply(p)
        \/ IncrementApplyFail(p)
        \/ IncrementRead(p)
        \/ IncrementReadFail(p)

SpecWriteOutage == Init /\ [][NextWriteOutage]_vars

\* ----------------------------------------------------------- SpecDerive
\* BlogPost.generateSlug on its own: a call holds its argument and returns the
\* slug or throws.
MaxTitle == 4

\* a lower-case letter, an upper-case letter, a digit, the three separators
\* and a special character
TitleChars == {"a", "B", "1", "_", " ", "-", "!"}

TitleInputs == {NotText} \cup {Text(s) : s \in SeqsUpTo(TitleChars, MaxTitle)}

InitDerive ==
    /\ posts = << >>
    /\ nextId = 1
    /\ now = 1
    /\ applied = [id \in Ids |-> 0]
    /\ \E title \in TitleInputs :
          op = [p \in Procs |->
                  IF p \in Serial
                  THEN [pc |-> "g_call", method |-> "generateSlug", title |-> title]
                  ELSE Idle]

\* BlogPost.generateSlug runs and returns or throws
GenerateReturn(p) ==
    /\ op[p].pc = "g_call"
    /\ LET value == generateSlugOf(op[p].title)
       IN  op' = [op EXCEPT ![p] =
              IF value = SlugError
              THEN Done("generateSlug", "Error", "Title is required to generate slug")
                       @@ [title |-> op[p].title]
              ELSE Done("generateSlug", "ok", "")
                       @@ [title |-> op[p].title, value |-> value]]
    /\ UNCHANGED <<posts, nextId, now, applied>>

NextDerive == \E p \in Serial : GenerateReturn(p)

SpecDerive == InitDerive /\ [][NextDerive]_vars

\* =================================================================
\* Properties
\* =================================================================

\* the step is one of request p
Steps(p) == op'[p] # op[p]

\* request p is an update whose step settles the slug and reaches the feature
\* check: it leaves findOne / the probe loop with a post it has read
ReachesCheck(p) ==
    /\ op[p].method = "update"
    /\ op[p].pc \in {"u_find", "probe"}
    /\ op'[p].pc \notin {"u_find", "probe"}
    /\ op[p].pc = "u_find" => op[p].id \in DOMAIN posts

\* the post update p has read (in a step that ReachesCheck)
ReadPost(p) == IF op[p].pc = "probe" THEN op[p].post ELSE posts[op[p].id]

\* request p is an update that saves in this step
Saves(p) == op[p].pc = "u_save" /\ Steps(p)

Unpublishes(req) == "is_published" \in DOMAIN req /\ req.is_published = FALSE

Publishes(req) == "is_published" \in DOMAIN req /\ req.is_published = TRUE

Features(req) == "is_featured" \in DOMAIN req /\ req.is_featured = TRUE

\* the publish state the request asks for on a post
ResultingPublished(req, post) ==
    IF "is_published" \in DOMAIN req THEN req.is_published ELSE post.is_published

\* the save of update p was refused (its post was removed meanwhile and its
\* slug taken by another row): the request fails and the store is untouched
SaveRefused(p) ==
    /\ op'[p].pc = "done"
    /\ op'[p].status = "Internal"
    /\ posts' = posts
    /\ op[p].id \notin DOMAIN posts

\* C1: every stored post satisfies is_featured => is_published.
C1_FeaturedImpliesPublished ==
    \A id \in DOMAIN posts : posts[id].is_featured => posts[id].is_published

\* C2: for every stored post, published_at is non-null if and only if
\* is_published is true (and a stored timestamp is a time the clock has shown).
C2_PublishedAtIffPublished ==
    \A id \in DOMAIN posts :
        /\ (posts[id].published_at # Null) <=> posts[id].is_published
        /\ posts[id].published_at <= now

\* an update has published a draft after the clock moved, and the post stands
\* published with that timestamp
C2_Witness ==
    \E p \in Procs :
        /\ op[p].pc = "u_read"
        /\ Publishes(op[p].req)
        /\ ~op[p].post.is_published
        /\ 1 \in DOMAIN posts
        /\ posts[1].is_published
        /\ posts[1].published_at > 1

\* C3: no two stored posts have the same slug, under every interleaving of
\* creates and title-changing updates.
C3_SlugsUnique ==
    \A i, j \in DOMAIN posts : posts[i].slug = posts[j].slug => i = j

\* a save was rejected by the unique constraint although the writer's probe
\* had found its slug free, and the slugs stored are distinct
C3_Witness ==
    /\ Cardinality(DOMAIN posts) = 2
    /\ \E p \in Procs : op[p].pc = "done" /\ op[p].status = "Internal"

\* C4: an update that asks to feature a draft without publishing it (the
\* request leaves is_published unset or sets it to false) throws "Cannot
\* feature an unpublished post", and no step of the call up to there has
\* changed the store.
C4_FeatureDraftRejected ==
    [][\A p \in Serial :
        /\ (op[p].method = "update" /\ op[p].pc \in {"u_find", "probe"} /\ Steps(p))
              => posts' = posts
        /\ (/\ ReachesCheck(p)
            /\ Features(op[p].req)
            /\ ~Publishes(op[p].req)
            /\ ~ReadPost(p).is_published)
              => /\ op'[p].pc = "done"
                 /\ op'[p].status = "BadRequest"
                 /\ op'[p].msg = "Cannot feature an unpublished post"]_vars

\* an update carrying a new title and categories with is_featured was rejected,
\* and the draft still stands with its first title
C4_Witness ==
    \E p \in Serial :
        /\ op[p].pc = "done"
        /\ op[p].msg = "Cannot feature an unpublished post"
        /\ "title" \in DOMAIN op[p].req
        /\ "categories" \in DOMAIN op[p].req
        /\ 1 \in DOMAIN posts
        /\ ~posts[1].is_published
        /\ posts[1].title # op[p].req.title

\* C5: an update with is_published = false of a post it read as published is
\* accepted, also when it carries is_featured = true, and its save stores
\* is_published = false, is_featured = false and published_at = null (a save
\* is refused only when the post was removed meanwhile and its slug is taken);
\* the call returns normally when the row is still there to be read back.
C5_UnpublishClearsFeatured ==
    [][\A p \in Procs :
        /\ (ReachesCheck(p) /\ Unpublishes(op[p].req) /\ ReadPost(p).is_published)
              => op'[p].pc = "u_save"
        /\ (Saves(p) /\ Unpublishes(op[p].req) /\ op[p].post.is_published)
              => \/ SaveRefused(p)
                 \/ /\ op'[p].pc = "u_read"
                    /\ ~posts'[op[p].id].is_published
                    /\ ~posts'[op[p].id].is_featured
                    /\ posts'[op[p].id].published_at = Null
        /\ (/\ op[p].pc = "u_read" /\ Steps(p)
            /\ Unpublishes(op[p].req) /\ op[p].post.is_published
            /\ op[p].id \in DOMAIN posts)
              => op'[p].status = "ok"]_vars

\* a featured published post was unpublished by a request that also asked to
\* feature it, and stands as an unfeatured draft
C5_Witness ==
    \E p \in Procs :
        /\ op[p].pc = "u_read"
        /\ Unpublishes(op[p].req)
        /\ Features(op[p].req)
        /\ op[p].post.is_published
        /\ op[p].post.is_featured
        /\ op[p].id \in DOMAIN posts
        /\ ~posts[op[p].id].is_published
        /\ ~posts[op[p].id].is_featured
        /\ posts[op[p].id].published_at = Null

\* C6: an update with is_published = true of a post it read as a draft is
\* accepted, stamps published_at with the clock at that moment and stores
\* is_published = true with that stamp; a request with is_featured = true gets
\* is_featured = true stored exactly when the publish state it asks for is
\* true (the post is published and is not unpublished by the request, or the
\* request publishes it). A save is refused only when the post was removed
\* meanwhile and its slug is taken.
C6_PublishAndFeature ==
    [][\A p \in Procs :
        /\ (ReachesCheck(p) /\ Publishes(op[p].req) /\ ~ReadPost(p).is_published)
              => /\ op'[p].pc = "u_save"
                 /\ op'[p].dto.published_at = now
        /\ (Saves(p) /\ Publishes(op[p].req) /\ ~op[p].post.is_published)
              => \/ SaveRefused(p)
                 \/ /\ op'[p].pc = "u_read"
                    /\ posts'[op[p].id].is_published
                    /\ posts'[op[p].id].published_at = op[p].dto.published_at
        /\ (ReachesCheck(p) /\ Features(op[p].req))
              => ((op'[p].pc = "u_save" /\ truthy(op'[p].dto, "is_featured"))
                    <=> ResultingPublished(op[p].req, ReadPost(p)))
        /\ (Saves(p) /\ truthy(op[p].dto, "is_featured"))
              => \/ SaveRefused(p)
                 \/ /\ posts'[op[p].id].is_featured
                    /\ posts'[op[p].id].is_published]_vars

\* a draft was published and featured by one request after the clock moved
C6_Witness ==
    \E p \in Procs :
        /\ op[p].pc = "u_read"
        /\ Publishes(op[p].req)
        /\ Features(op[p].req)
        /\ ~op[p].post.is_published
        /\ op[p].id \in DOMAIN posts
        /\ posts[op[p].id].is_published
        /\ posts[op[p].id].is_featured
        /\ posts[op[p].id].published_at = MaxTime

\* C7: with increments as the only writers of a post, every increment that
\* ran is in the stored count: two overlapping increments of a post at n
\* leave it at n + 2.
C7_NoLostIncrement ==
    \A id \in DOMAIN posts : posts[id].view_count = applied[id]

\* both requests incremented the same post, both had read the same count n
\* before either incremented, and the post stands at n + 2
C7_Witness ==
    /\ op[1].pc = "done" /\ op[1].method = "increment" /\ op[1].status = "ok"
    /\ op[2].pc = "done" /\ op[2].method = "increment" /\ op[2].status = "ok"
    /\ op[1].id = op[2].id
    /\ op[1].post_view_count = op[2].post_view_count
    /\ op[1].id \in DOMAIN posts
    /\ posts[op[1].id].view_count = op[1].post_view_count + 2

\* C8: the stored view_count of a post is never negative and never decreases.
C8_ViewCountMonotonic ==
    [][\A id \in DOMAIN posts \cap DOMAIN posts' :
          /\ posts'[id].view_count >= 0
          /\ posts'[id].view_count >= posts[id].view_count]_vars

\* C9: incrementViewBySlug throws NotFound and changes nothing when no
\* published post has the slug, and the increment statement only ever hits a
\* post that is published.
C9_IncrementOnlyPublished ==
    [][\A p \in Procs :
        /\ (/\ op[p].pc = "i_find" /\ Steps(p)
            /\ publishedWithSlug(trim(op[p].slug)) = {})
              => /\ op'[p].pc = "done"
                 /\ op'[p].status = "NotFound"
                 /\ posts' = posts
        /\ (op[p].pc = "i_inc" /\ Steps(p) /\ op[p].id \in DOMAIN posts)
              => posts[op[p].id].is_published]_vars

\* C10: the categories of every stored post are an array of 1 to 4 distinct
\* members of the vocabulary.
C10_CategoriesValid ==
    \A id \in DOMAIN posts :
        LET c == posts[id].categories
        IN  /\ c.array
            /\ Len(c.items) \in 1..4
            /\ \A i, j \in 1..Len(c.items) : c.items[i] = c.items[j] => i = j
            /\ \A i \in 1..Len(c.items) :
                  c.items[i] \in {"newsroom", "thought-pieces", "achievements",
                                  "awards-recognition"}

\* an update has stored the two valid members of a category array that held
\* a duplicate and an invalid member
C10_Witness ==
    \E p \in Serial :
        /\ op[p].pc = "u_read"
        /\ "categories" \in DOMAIN op[p].req
        /\ op[p].req.categories =
              Arr(<<"achievements", "invalid", "achievements", "newsroom">>)
        /\ op[p].post.categories = Arr(<<"newsroom">>)
        /\ 1 \in DOMAIN posts
        /\ posts[1].categories = Arr(<<"achievements", "newsroom">>)

\* the members of a sequence
Members(s) == {s[i] : i \in 1..Len(s)}

\* C11: validateCategories returns [newsroom] when its argument is absent, no
\* array, empty or without a member of the vocabulary, and otherwise the
\* distinct vocabulary members of the argument, each once; the result is a
\* non-empty duplicate-free array of vocabulary members, and validating it
\* again returns it unchanged.
C11_Normalize ==
    \A p \in Procs :
        (op[p].pc = "done" /\ op[p].method = "validateCategories") =>
            LET input == op[p].categories
                value == op[p].value
                vocabulary == {"newsroom", "thought-pieces", "achievements",
                               "awards-recognition"}
                wanted == Members(input.items) \cap vocabulary
            IN  /\ value.array
                /\ Len(value.items) >= 1
                /\ \A i, j \in 1..Len(value.items) :
                      value.items[i] = value.items[j] => i = j
                /\ Members(value.items) \subseteq vocabulary
                /\ IF ~input.truthy \/ ~input.array \/ wanted = {}
                   THEN value = Arr(<<"newsroom">>)
                   ELSE Members(value.items) = wanted
                /\ validateCategories(value) = value

\* a call with a duplicate, a stranger and two vocabulary members returned
\* the two members
C11_Witness ==
    \E p \in Procs :
        /\ op[p].pc = "done"
        /\ op[p].method = "validateCategories"
        /\ op[p].categories = Arr(<<"newsroom", "invalid", "newsroom", "achievements">>)
        /\ op[p].value = Arr(<<"newsroom", "achievements">>)

\* C12: with one request at a time, generateUniqueSlug returns the base slug
\* when no post other than excludeId holds it, and otherwise base-k for the
\* smallest k >= 1 that no post other than excludeId holds; the loop has
\* tried at most one candidate per stored post when it stops.
C12_MakeUnique ==
    [][\A p \in Serial :
        /\ op'[p].pc = "probe" => op'[p].counter <= Cardinality(DOMAIN posts') + 1
        /\ (op[p].pc = "probe" /\ op'[p].pc # "probe") =>
              LET base == op[p].baseSlug
                  held(s) == \E j \in DOMAIN posts :
                                 j # op[p].id /\ posts[j].slug = s
                  chosen == IF op'[p].pc = "c_save"
                            THEN op'[p].entity.slug
                            ELSE op'[p].dto.slug
              IN  /\ op'[p].pc \in {"c_save", "u_save"}
                  /\ IF ~held(base)
                     THEN chosen = base
                     ELSE \E k \in 1..(MaxPosts + 1) :
                            /\ chosen = suffixed(base, k)
                            /\ ~held(chosen)
                            /\ \A i \in 1..(k - 1) : held(suffixed(base, i))]_vars

\* two posts created one after the other with the same title hold the base
\* slug and the base slug with -1, and an update of the second to a title of
\* the same base slug has kept its slug
C12_Witness ==
    /\ DOMAIN posts = {1, 2}
    /\ posts[1].title = TitleLower
    /\ posts[1].slug = <<"a", "b">>
    /\ posts[2].title = TitleAb
    /\ posts[2].slug = <<"a", "b", "-", "1">>
    /\ \E p \in Serial :
          /\ op[p].pc = "done" /\ op[p].method = "update" /\ op[p].status = "ok"

\* C13: findAll returns total = the number of posts its filter matches,
\* totalPages = ceil(total / limit) and data = the matching posts from
\* position (page - 1) * limit on, at most limit of them, in descending order
\* of creation time; page is 1 and limit is 10 when the query leaves them out
\* (23 posts at 10 a page are 3 pages).
C13_Pagination ==
    [][\A p \in Serial :
        LET query == op[p].query
            found == {id \in DOMAIN posts : matchesFindAll(posts[id], query)}
            n == Cardinality(found)
        IN  /\ (op[p].pc = "l_count" /\ Steps(p)) => op'[p].total = n
            /\ (op[p].pc = "l_many" /\ Steps(p)) =>
                  LET r == op'[p]
                      first == (r.page - 1) * r.limit
                  IN  /\ r.page = (IF "page" \in DOMAIN query THEN query.page ELSE 1)
                      /\ r.limit = (IF "limit" \in DOMAIN query THEN query.limit ELSE 10)
                      /\ r.total = n
                      /\ r.totalPages * r.limit >= r.total
                      /\ (r.totalPages - 1) * r.limit < r.total
                      /\ Len(r.data) <= r.limit
                      /\ \E all \in [1..n -> found] :
                            /\ \A i, j \in 1..n : all[i] = all[j] => i = j
                            /\ \A i, j \in 1..n : i < j =>
                                  posts[all[i]].created_at >= posts[all[j]].created_at
                            /\ Len(r.data) = (IF n - first < 0 THEN 0
                                              ELSE IF n - first < r.limit THEN n - first
                                              ELSE r.limit)
                            /\ \A i \in 1..Len(r.data) : r.data[i] = all[first + i]
                      /\ ceilDiv(23, 10) = 3]_vars

\* the second page of one post a page, of two posts created at different
\* times, holds the older post
C13_Witness ==
    \E p \in Serial :
        /\ op[p].pc = "done" /\ op[p].method = "findAll"
        /\ op[p].page = 2 /\ op[p].limit = 1
        /\ op[p].total = 2 /\ op[p].totalPages = 2
        /\ DOMAIN posts = {1, 2}
        /\ posts[1].created_at < posts[2].created_at
        /\ op[p].data = <<1>>

\* C14: when findAll is given a non-empty array of requested categories, the
\* posts it counts and returns are exactly those that pass the other filters
\* and whose stored categories share a member with the requested ones.
C14_CategoryIntersection ==
    [][\A p \in Serial :
        (/\ op[p].pc = "l_many" /\ Steps(p)
         /\ "categories" \in DOMAIN op[p].query
         /\ op[p].query.categories.array
         /\ op[p].query.categories.items # << >>) =>
            LET query == op[p].query
                requested == Members(query.categories.items)
                qualifies ==
                    {id \in DOMAIN posts :
                        /\ "is_published" \in DOMAIN query =>
                              posts[id].is_published = query.is_published
                        /\ Members(posts[id].categories.items) \cap requested # {}}
            IN  /\ op'[p].total = Cardinality(qualifies)
                /\ Members(op'[p].data) \subseteq qualifies
                /\ Len(op'[p].data) =
                      Cardinality({id \in qualifies :
                                     \E i \in 1..Len(op'[p].data) : op'[p].data[i] = id})]_vars

\* the sum of f over the set S
RECURSIVE SumOver(_, _)
SumOver(f, S) ==
    IF S = {} THEN 0
    ELSE LET x == CHOOSE x \in S : TRUE IN f[x] + SumOver(f, S \ {x})

\* C15: with no writer during the call, getStatistics returns total = the
\* number of posts, published = those with is_published, drafts = those
\* without, featured = those published and featured, total_views = the sum
\* of view_count over the published posts, and by_category[c] = the number
\* of published posts whose categories hold c, for each category c of the
\* vocabulary; so published + drafts = total and featured <= published.
C15_Statistics ==
    [][\A p \in Serial :
        (op[p].pc = "s_category" /\ op'[p].pc = "done") =>
            LET v == op'[p].value
                all == DOMAIN posts
                pub == {id \in all : posts[id].is_published}
            IN  /\ v.total = Cardinality(all)
                /\ v.published = Cardinality(pub)
                /\ v.drafts = Cardinality(all \ pub)
                /\ v.featured = Cardinality({id \in pub : posts[id].is_featured})
                /\ v.total_views = SumOver([id \in pub |-> posts[id].view_count], pub)
                /\ DOMAIN v.by_category =
                      {"newsroom", "thought-pieces", "achievements", "awards-recognition"}
                /\ \A c \in DOMAIN v.by_category :
                      v.by_category[c] =
                          Cardinality({id \in pub : c \in Members(posts[id].categories.items)})
                /\ v.published + v.drafts = v.total
                /\ v.featured <= v.published]_vars

\* statistics of a store with a viewed published post of two categories and
\* a draft that was viewed before it was unpublished
C15_Witness ==
    \E p \in Serial :
        /\ op[p].pc = "done" /\ op[p].method = "getStatistics"
        /\ op[p].value.total = 2
        /\ op[p].value.published = 1
        /\ op[p].value.drafts = 1
        /\ op[p].value.total_views = 1
        /\ op[p].value.by_category["thought-pieces"] = 1
        /\ op[p].value.by_category["achievements"] = 0
        /\ \E id \in DOMAIN posts : ~posts[id].is_published /\ posts[id].view_count = 1

\* data lists distinct posts of the set wanted, dated posts in descending
\* order of published_at
ListsSorted(data, wanted) ==
    /\ Members(data) \subseteq wanted
    /\ \A i, j \in 1..Len(data) : data[i] = data[j] => i = j
    /\ \A i, j \in 1..Len(data) :
          (/\ i < j
           /\ posts[data[i]].published_at # Null
           /\ posts[data[j]].published_at # Null)
              => posts[data[i]].published_at >= posts[data[j]].published_at

\* C16: findPublished, findFeatured and findRecent return published posts
\* only (findFeatured: published and featured only), in descending order of
\* published_at; findPublished returns all of them, findFeatured and
\* findRecent the first min(max(limit, 1), 50) of them.
C16_PublishedViews ==
    [][\A p \in Serial :
        (op[p].pc \in {"fp_find", "ff_find", "fr_find"} /\ Steps(p)) =>
            LET data == op'[p].data
                wanted == {id \in DOMAIN posts :
                              /\ posts[id].is_published
                              /\ op[p].pc = "ff_find" => posts[id].is_featured}
                n == Cardinality(wanted)
            IN  /\ op'[p].pc = "done" /\ op'[p].status = "ok"
                /\ ListsSorted(data, wanted)
                /\ \A i \in 1..Len(data) : posts[data[i]].published_at # Null
                /\ \A id \in wanted \ Members(data) : \A i \in 1..Len(data) :
                      posts[data[i]].published_at >= posts[id].published_at
                /\ op[p].pc = "fp_find" => Len(data) = n
                /\ op[p].pc # "fp_find" =>
                      LET limit == op[p].limit
                          atLeast == IF limit > 1 THEN limit ELSE 1
                          most == IF atLeast < 50 THEN atLeast ELSE 50
                      IN  /\ most \in 1..50
                          /\ op'[p].take = most
                          /\ Len(data) = (IF n < most THEN n ELSE most)]_vars

\* findRecent(0) over two published posts, the first published after the
\* second, returned the first alone
C16_Witness ==
    \E p \in Serial :
        /\ op[p].pc = "done" /\ op[p].method = "findRecent"
        /\ op[p].limit = 0
        /\ DOMAIN posts = {1, 2}
        /\ posts[1].is_published /\ posts[2].is_published
        /\ posts[1].published_at > posts[2].published_at
        /\ op[p].data = <<1>>

C18_RemovePermanent ==
    [][\A p \in Serial :
        /\ \A id \in 1..(nextId - 1) : id \notin DOMAIN posts => id \notin DOMAIN posts'
        /\ (op[p].pc = "r_remove" /\ Steps(p)) =>
              /\ op[p].id \in DOMAIN posts
              /\ DOMAIN posts' = DOMAIN posts \ {op[p].id}
              /\ \A j \in DOMAIN posts' :
                    posts'[j] = posts[j] /\ posts'[j].slug # posts[op[p].id].slug
              /\ op'[p].pc = "done" /\ op'[p].status = "ok"
        /\ (/\ op[p].pc \in {"r_find", "o_find", "u_find"} /\ Steps(p)
            /\ op[p].id \notin DOMAIN posts) =>
              /\ op'[p].pc = "done" /\ op'[p].status = "NotFound"
              /\ posts' = posts
        /\ (op[p].pc \in {"l_many", "fp_find"} /\ Steps(p)) =>
              Members(op'[p].data) = (IF op[p].pc = "l_many" THEN DOMAIN posts
                                      ELSE {id \in DOMAIN posts : posts[id].is_published})
        /\ (op[p].pc = "s_category" /\ op'[p].pc = "done") =>
              op'[p].value.total = Cardinality(DOMAIN posts)]_vars

\* the first post was removed, and a post created afterwards under the same
\* title holds the slug the first had; a read of the first id was answered
\* NotFound
C18_Witness ==
    /\ nextId = 3
    /\ DOMAIN posts = {2}
    /\ posts[2].slug = generateSlug(TitleAb)
    /\ \E p \in Serial :
          /\ op[p].pc = "done" /\ op[p].method = "findOne"
          /\ op[p].status = "NotFound" /\ op[p].id = 1

\* the request sets is_published and / or is_featured and nothing else, each
\* to the value the post has
Restates(req, post) ==
    /\ DOMAIN req # {}
    /\ DOMAIN req \subseteq {"is_published", "is_featured"}
    /\ \A f \in DOMAIN req : req[f] = post[f]

\* C19: an update that re-states the publish / feature flags the post has is
\* accepted and its save leaves the row as it was (a published post keeps
\* its published_at, a draft keeps null), and an accepted update sent a
\* second time right after the first leaves the store as the first left it.
C19_NoOpUpdate ==
    [][\A p \in Procs :
        /\ (ReachesCheck(p) /\ Restates(op[p].req, ReadPost(p)))
              => op'[p].pc = "u_save"
        /\ (Saves(p) /\ Restates(op[p].req, op[p].post))
              => /\ op'[p].pc = "u_read"
                 /\ posts' = posts
        /\ (p = Second /\ Steps(p)) => posts' = posts]_vars

\* C20: with one request at a time, an update whose request sets neither
\* is_published nor is_featured is accepted, and its save leaves
\* is_published, is_featured, published_at and created_at of the post as
\* stored, keeps the row under its id and touches no other row.
C20_FrameOfContentUpdate ==
    [][\A p \in Serial :
        LET plain == DOMAIN op[p].req \cap {"is_published", "is_featured"} = {}
        IN  /\ (ReachesCheck(p) /\ plain) => op'[p].pc = "u_save"
            /\ (Saves(p) /\ plain) =>
                  LET id == op[p].id
                  IN  /\ op'[p].pc = "u_read"
                      /\ DOMAIN posts' = DOMAIN posts
                      /\ \A j \in DOMAIN posts \ {id} : posts'[j] = posts[j]
                      /\ posts'[id].is_published = posts[id].is_published
                      /\ posts'[id].is_featured = posts[id].is_featured
                      /\ posts'[id].published_at = posts[id].published_at
                      /\ posts'[id].created_at = posts[id].created_at]_vars

\* after the clock moved, an update gave a published post a new title and
\* new categories, and the post is published with the date it had
C20_Witness ==
    \E p \in Serial :
        /\ op[p].pc = "u_read"
        /\ DOMAIN op[p].req = {"title", "categories"}
        /\ op[p].id \in DOMAIN posts
        /\ op[p].post.is_published
        /\ op[p].post.published_at < now
        /\ posts[op[p].id].title = op[p].req.title
        /\ posts[op[p].id].title # op[p].post.title
        /\ posts[op[p].id].slug # op[p].post.slug
        /\ posts[op[p].id].categories = Arr(<<"achievements">>)
        /\ posts[op[p].id].published_at = op[p].post.published_at

\* C21: generateSlug of a title of at least three characters after trimming
\* returns a string of lower-case letters, digits and hyphens with no two
\* hyphens in a row and no hyphen at either end; generateSlug of the empty
\* string or of a value that is no string throws.
C21_DeriveBase ==
    \A p \in Procs :
        (op[p].pc = "done" /\ op[p].method = "generateSlug") =>
            LET title == op[p].title
            IN  /\ (title.text /\ Len(trim(title.chars)) >= 3) =>
                      /\ op[p].status = "ok"
                      /\ LET slug == op[p].value
                         IN  /\ \A i \in 1..Len(slug) :
                                   slug[i] \in {"a", "b", "-"} \cup digits
                             /\ \A i \in 1..(Len(slug) - 1) :
                                   ~(slug[i] = "-" /\ slug[i + 1] = "-")
                             /\ slug # << >> => (slug[1] # "-" /\ slug[Len(slug)] # "-")
                /\ (~title.text \/ title.chars = << >>) => op[p].status = "Error"

\* an upper-case letter, a special character, an underscore and a digit gave
\* the letter in lower case, one hyphen and the digit
C21_Witness ==
    \E p \in Procs :
        /\ op[p].pc = "done"
        /\ op[p].method = "generateSlug"
        /\ op[p].title = Text(<<"B", "!", "_", "1">>)
        /\ op[p].status = "ok"
        /\ op[p].value = <<"b", "-", "1">>

\* C22: with creates and increments as the only operations, the step in which
\* incrementViewBySlug reads the new count and returns gives the count stored
\* at that moment, which is at least the count read before the increment plus
\* one, and exactly that when no other request ever ran; the stored count
\* never falls below a value an increment has returned.
C22_ReturnsNewCount ==
    [][\A p \in Procs :
        /\ (op[p].pc = "i_read" /\ Steps(p)) =>
              /\ op'[p].status = "ok"
              /\ op'[p].value = posts[op[p].id].view_count
              /\ op'[p].value >= op[p].post_view_count + 1
              /\ (\A q \in Procs \ {p} : op[q] = Idle) =>
                    op'[p].value = op[p].post_view_count + 1
        /\ (op[p].pc = "done" /\ op[p].method = "increment" /\ op[p].status = "ok")
              => op[p].value <= posts'[op[p].id].view_count]_vars

\* an increment that read n before it incremented returned n + 2: another
\* increment of the same post ran in between
C22_Witness ==
    \E p \in Procs :
        /\ op[p].pc = "done"
        /\ op[p].method = "increment"
        /\ op[p].status = "ok"
        /\ op[p].value = op[p].post_view_count + 2
        /\ posts[op[p].id].view_count = op[p].value

\* C23: once two updates of the same post have both returned, whatever the
\* order of their reads and saves, the stored post satisfies
\* is_featured => is_published and has a published_at exactly when it is
\* published.
C23_ConcurrentUpdates ==
    (/\ \A p \in Procs : /\ op[p].pc = "done"
                          /\ op[p].method = "update"
                          /\ op[p].status = "ok"
     /\ op[First].id = op[Second].id
     /\ op[First].id \in DOMAIN posts)
    => LET post == posts[op[First].id]
       IN  /\ post.is_featured => post.is_published
           /\ (post.published_at # Null) <=> post.is_published

\* C24: a create whose insert is rejected by the unique constraint on slug
\* (its probe had found the slug free, another create stored it since) does
\* not throw the internal error: it goes on with the next suffix.
C24_RetryOnConflict ==
    [][\A p \in Procs :
        (/\ op[p].pc = "c_save"
         /\ Steps(p)
         /\ slugConflict(savedRow(op[p].entity, now).slug, nextId))
        => ~(op'[p].pc = "done" /\ op'[p].status = "Internal")]_vars

\* C25: with one request at a time, the save of an update is accepted; it
\* leaves the slug of the post as stored when the request has no title or the
\* stored title, and also when the request's new title derives the slug the
\* post holds; the slug it writes is held by no other post.
C25_SlugOnUpdate ==
    [][\A p \in Serial :
        Saves(p) =>
            LET id == op[p].id
                req == op[p].req
                retitled == "title" \in DOMAIN req /\ req.title # posts[id].title
            IN  /\ op'[p].pc = "u_read"
                /\ ~retitled => posts'[id].slug = posts[id].slug
                /\ (retitled /\ generateSlug(req.title) = posts[id].slug)
                      => posts'[id].slug = posts[id].slug
                /\ \A j \in DOMAIN posts \ {id} :
                      /\ posts'[j] = posts[j]
                      /\ posts'[id].slug # posts[j].slug]_vars

\* an update gave a post a title that differs from the stored one and derives
\* the slug the post held, and the post holds that slug, without a suffix,
\* next to another post
C25_Witness ==
    \E p \in Serial :
        /\ op[p].pc = "u_read"
        /\ op[p].id \in DOMAIN posts
        /\ Cardinality(DOMAIN posts) = 2
        /\ "title" \in DOMAIN op[p].req
        /\ op[p].req.title # op[p].post.title
        /\ generateSlug(op[p].req.title) = op[p].post.slug
        /\ posts[op[p].id].title = op[p].req.title
        /\ posts[op[p].id].slug = op[p].post.slug

\* C26: the post findOne returns carries validateCategories of the stored
\* categories, whatever value the column holds when it is read.
C26_NormalizedOnRead ==
    [][\A p \in Serial :
        (op[p].pc = "o_find" /\ Steps(p) /\ op[p].id \in DOMAIN posts)
        => op'[p].value.categories = validateCategories(posts[op[p].id].categories)]_vars

\* C27: a findAll whose author_id is no uuid or whose categories hold a
\* name outside the vocabulary, a findByAuthor whose author_id is no uuid and
\* a findByCategory whose category is outside the vocabulary throw
\* BadRequest: none of them runs a query or returns a result.
C27_QueryValidation ==
    \A p \in Procs :
        LET o == op[p]
            rejected == o.pc = "done" /\ o.status = "BadRequest"
            vocabulary == {"newsroom", "thought-pieces", "achievements",
                           "awards-recognition"}
        IN  /\ (o.method = "findAll"
                  /\ "author_id" \in DOMAIN o.query
                  /\ ~uuidRegexTest(o.query.author_id)) => rejected
            /\ (o.method = "findAll"
                  /\ "categories" \in DOMAIN o.query
                  /\ ~(Members(o.query.categories.items) \subseteq vocabulary))
                 => rejected
            /\ (o.method = "findByAuthor" /\ ~uuidRegexTest(o.author_id)) => rejected
            /\ (o.method = "findByCategory" /\ o.category \notin vocabulary) => rejected

\* C28: when the query of findAll, searchPosts, findByCategory, findByAuthor,
\* findPublished, findFeatured or findRecent fails in the store, the call
\* returns an empty result and throws nothing.
C28_ReadFailureEmpty ==
    [][\A p \in Procs :
        (\/ FindAllFail(p) \/ SearchFail(p) \/ FindByCategoryFail(p)
         \/ FindByAuthorFail(p) \/ FindPublishedFail(p) \/ FindFeaturedFail(p)
         \/ FindRecentFail(p))
        => /\ op'[p].pc = "done"
           /\ op'[p].status = "ok"
           /\ op'[p].data = << >>]_vars

\* C29: with one request at a time, the statistics getStatistics returns on
\* a store whose queries can fail are either the counts of the store or zero
\* in every entry: no result has some entries zeroed by a failed query next
\* to counts of the store in the others.
C29_StatisticsAllOrNothing ==
    [][\A p \in Serial :
        (op[p].method = "getStatistics" /\ op[p].pc # "done" /\ op'[p].pc = "done") =>
            LET v == op'[p].value
                all == DOMAIN posts
                pub == {id \in all : posts[id].is_published}
                vocabulary == {"newsroom", "thought-pieces", "achievements",
                               "awards-recognition"}
            IN  /\ op'[p].status = "ok"
                /\ DOMAIN v.by_category = vocabulary
                /\ \/ /\ v.total = 0 /\ v.published = 0 /\ v.drafts = 0
                      /\ v.featured = 0 /\ v.recently_published = 0
                      /\ v.total_views = 0
                      /\ \A c \in vocabulary : v.by_category[c] = 0
                   \/ /\ v.total = Cardinality(all)
                      /\ v.published = Cardinality(pub)
                      /\ v.drafts = Cardinality(all \ pub)
                      /\ v.featured = Cardinality({id \in pub : posts[id].is_featured})
                      /\ v.recently_published = Cardinality(pub)
                      /\ v.total_views = 0
                      /\ \A c \in vocabulary :
                            v.by_category[c] =
                                Cardinality({id \in pub :
                                    c \in Members(posts[id].categories.items)})]_vars

\* the call of request p ends in this step with an error of the given kind
Throws(p, status) == op'[p].pc = "done" /\ op'[p].status = status

\* C30: with one request at a time, in create, update, remove and
\* incrementViewBySlug a title or slug that is empty throws BadRequest, an id
\* or slug that names no (published) post throws NotFound, featuring a draft
\* without publishing it throws BadRequest, and a failure of the store in
\* any awaited call (the slug probe, the save, the read-back included) ends
\* the call with the internal error.
C30_WriteErrors ==
    [][\A p \in Serial :
        /\ (\E dto \in OutageWriteDTOs : CreateBegin(p, dto) /\ dto.title = EmptyText)
              => Throws(p, "BadRequest")
        /\ (\E slug \in ViewSlugs \cup {<<" ">>} :
                IncrementBegin(p, slug) /\ trim(slug) = EmptyText)
              => Throws(p, "BadRequest")
        /\ ((UpdateFind(p) \/ RemoveFind(p)) /\ op[p].id \notin DOMAIN posts)
              => Throws(p, "NotFound")
        /\ (IncrementFind(p) /\ publishedWithSlug(trim(op[p].slug)) = {})
              => Throws(p, "NotFound")
        /\ ((UpdateFind(p) \/ Probe(p))
                /\ ReachesCheck(p)
                /\ Features(op[p].req)
                /\ ~Publishes(op[p].req)
                /\ ~ReadPost(p).is_published)
              => Throws(p, "BadRequest")
        /\ (\/ ProbeFail(p) \/ CreateSaveFail(p) \/ CreateReadFail(p)
            \/ UpdateFindFail(p) \/ UpdateSaveFail(p) \/ UpdateReadFail(p)
            \/ RemoveFindFail(p) \/ RemoveDeleteFail(p)
            \/ IncrementFindFail(p) \/ IncrementApplyFail(p)
            \/ IncrementReadFail(p))
              => Throws(p, "Internal")]_vars

====
